---- MODULE Spec2Model ----
(***************************************************************************)
(* State-machine model of seven0070/yumiai: the RikoService connection     *)
(* manager (src/src/services/riko.ts, lines 1-173) with its WebSocket      *)
(* channel, HTTP fallback, listener map, reconnection timers and the       *)
(* delayed mouth-reset timers it schedules, the Avatar3D component         *)
(* (lines 338-573) with its mesh classification, blink and mouth           *)
(* animation, and the LiveInterface component                              *)
(* (src/src/components/LiveInterface.tsx) that sends the typed message     *)
(* and makes the avatar speak.                                             *)
(*                                                                         *)
(* Time is kept as the remaining delay of every pending timer (JavaScript  *)
(* setTimeout) and the age of every pending request, in milliseconds.      *)
(* A timer whose remaining delay is 0 runs before time advances further.   *)
(***************************************************************************)
EXTENDS Integers, Sequences, FiniteSets, TLC

(***************************************************************************)
(* Bounds of the model.                                                    *)
(***************************************************************************)
MaxRequests == 1        \* sendMessage calls in one run
MaxSockets == 2         \* WebSocket objects that have events outstanding
MaxReconnectTimers == 2 \* reconnection timers pending at once
MaxMouthTimers == 1     \* mouth-reset timers pending at once
TotalCap == 6           \* the history counter of scheduled reconnections saturates here
MaxNow == 5250          \* latest frame time of a free-running avatar, in ms
MaxClockNow == 14000    \* latest frame time under a fixed frame clock, in ms
MaxAvatars == 2         \* Avatar3D instances mounted at once
MaxMeshes == 6          \* meshes of all the clones made of loaded models
MaxSpeaks == 2          \* calls of the avatar's trigger in one run

(***************************************************************************)
(* Program constants.                                                      *)
(***************************************************************************)
maxReconnectAttempts == 5
BackoffBaseMs == 1000
BackoffCapMs == 30000
ResponseTimeoutMs == 10000
MouthResetMs == 2000

(***************************************************************************)
(* Inputs.                                                                 *)
(***************************************************************************)
Messages == {"hello"}                  \* texts passed to sendMessage
Contents == {"c1", "c2"}               \* content fields of inbound frames
Emotions == {"happy"}                  \* emotion fields of HTTP bodies
EventNames == {"connection", "text", "audio", "emotion", "speaking"}
Subscriptions == {<<"connection", "handleConnection">>}

Slots == 1..MaxSockets

Min(a, b) == IF a < b THEN a ELSE b

RECURSIVE Pow2(_)
Pow2(n) == IF n = 0 THEN 1 ELSE 2 * Pow2(n - 1)

(***************************************************************************)
(* JSON on the wire.  A text is a sequence of tokens; an object of two     *)
(* fields is written "{", field, field, "}".  Parsing checks the shape and *)
(* fails on anything else (JSON.parse throws).                             *)
(***************************************************************************)
JSONstringify(a, b) == <<"{", a, b, "}">>

\* Mutant: a text that lacks its closing brace is accepted.
JSONparsesUnterminated(raw) == Len(raw) >= 3 /\ raw[1] = "{"

JSONparses(raw) == Len(raw) = 4 /\ raw[1] = "{" /\ raw[4] = "}"

JSONfirst(raw) == raw[2]

JSONsecond(raw) == raw[3]

\* Frames the remote agent may put on the duplex channel.
InboundFrames ==
    {JSONstringify(t, c) : t \in {"text_response", "audio_response", "emotion", "status"},
                           c \in Contents}
    \cup {<<"{", "text_response", "c1">>}     \* cut off before the closing brace

\* Answers of the fallback endpoint: the transport may fail, the status may
\* be a non-success one, the body may be unparsable.
HttpAnswers ==
    {[transport |-> "ok", ok |-> TRUE, body |-> JSONstringify(c, e)] :
        c \in Contents, e \in Emotions}
    \cup {[transport |-> "ok", ok |-> FALSE, body |-> JSONstringify("c1", "neutral")],
          [transport |-> "ok", ok |-> TRUE, body |-> <<"<html>">>],
          [transport |-> "error", ok |-> FALSE, body |-> <<>>]}

(***************************************************************************)
(* Results of a sendMessage promise.                                       *)
(***************************************************************************)
NoResult == [kind |-> "none", text |-> "", emotion |-> ""]
NullResult == [kind |-> "null", text |-> "", emotion |-> ""]
Rejected == [kind |-> "rejected", text |-> "", emotion |-> ""]
Response(t, e) == [kind |-> "value", text |-> t, emotion |-> e]

UnusedRequest ==
    [state |-> "unused", path |-> "none", text |-> "", timer |-> -1, age |-> 0,
     result |-> NoResult]

HandlerOf(r) == <<"handleResponse", r>>

VARIABLES
    sockets,            \* slot -> readyState of a WebSocket object ("NONE": no object)
    ws,                 \* this.ws: 0 for null, else the slot of the referenced socket
    listeners,          \* this.listeners: event name -> set of callbacks
    reconnectAttempts,  \* this.reconnectAttempts
    reconnectTimers,    \* pending setTimeout(initializeConnection): <<[remaining, delay]>>
    requests,           \* request id -> the state of that sendMessage call
    wsOut,              \* frames written to the duplex channel, in order
    httpOut,            \* bodies POSTed to /chat, in order
    mouthTimers,        \* pending setTimeout(reset mouth): remaining delays
    hook,               \* whether window.__triggerMouthAnimation is a function
    hookCalls,          \* arguments (in tenths) the handler that ran last passed to the global hook
    emitted,            \* the emit() calls of the handler that ran last
    resolvedNow,        \* the requests whose promise the handler that ran last settled
    answered,           \* the answer of the fallback endpoint the handler that ran last consumed
    closesSinceOpen,    \* history: close events since the last successful open
    counting,           \* whether totalReconnects is kept in this run
    totalReconnects,    \* history: reconnections scheduled so far (saturating)
    exhausted,          \* history: a close found the attempt counter at the cap of 5 or above
    received            \* the inbound frame the handler that ran last was given

(***************************************************************************)
(* The avatar component (riko.ts:338-573).  Times are in milliseconds; mesh  *)
(* scales, blink amounts and mouth intensities are fixed-point numbers in    *)
(* thousandths, and every product or quotient is rounded to the nearest      *)
(* thousandth.                                                               *)
(***************************************************************************)
VARIABLES
    now,                \* performance.now() as the latest frame or call read it
    scene,              \* the meshes of every clonedScene so far, in traversal order
    group,              \* groupRef.current: the indices in scene of the meshes it holds
    loaded,             \* whether the classification effect has run for the scene
    meshScale,          \* traversal index -> mesh.scale of that mesh
    eyeMeshes,          \* state eyeMeshes: traversal indices
    originalEyeScales,  \* state originalEyeScales
    mouthMesh,          \* state mouthMesh: 0 for null, else a traversal index
    originalMouthScale, \* state originalMouthScale: <<>> for null, else <<scale>>
    blinkState,         \* blinkStateRef.current
    mouthAnim,          \* mouthAnimationRef.current
    framePeriod,        \* 0: frames come at any gap; else the period of a fixed frame clock
    speaks,             \* history: calls of triggerMouthMovement so far
    episode,            \* history of the speaking episode: calls, silences, replaced deadline
    blinkStarts         \* history: the blinkStartTime of every blink so far

(***************************************************************************)
(* The live interface (LiveInterface.tsx:14-81).                           *)
(***************************************************************************)
VARIABLES
    inputMessage,       \* state inputMessage
    awaiting,           \* the sendMessage calls a handleSendMessage awaits
    avatars,            \* the Avatar3D instances whose registration effect has run
    connectionStatus,   \* state connectionStatus
    statusTimers        \* remaining ms of the pending setTimeout of the mount effect

interfaceVars == <<inputMessage, awaiting, avatars, connectionStatus, statusTimers>>

avatarVars == <<now, scene, group, loaded, meshScale, eyeMeshes, originalEyeScales, mouthMesh,
                originalMouthScale, blinkState, mouthAnim, framePeriod, speaks, episode,
                blinkStarts>>

\* What no handler of the service writes.
componentVars == <<avatarVars, interfaceVars>>

\* The sendMessage calls of the run.
ReqIds == DOMAIN requests

vars == <<sockets, ws, listeners, reconnectAttempts, reconnectTimers, requests, wsOut,
          httpOut, mouthTimers, hook, hookCalls, emitted, resolvedNow, answered,
          closesSinceOpen, totalReconnects, exhausted, counting, received, avatarVars,
          interfaceVars>>

(***************************************************************************)
(* Pure parts of the handlers.                                             *)
(***************************************************************************)
\* Mutant: the delay is computed before the counter is incremented.
ReconnectDelayBeforeIncrement(attempts) ==
    Min(BackoffBaseMs * Pow2(attempts - 1), BackoffCapMs)

\* riko.ts:53  Math.min(1000 * Math.pow(2, this.reconnectAttempts), 30000)
ReconnectDelay(attempts) == Min(BackoffBaseMs * Pow2(attempts), BackoffCapMs)

\* Mutants: the cap is compared with <=; the cap is not checked.
CanReconnectInclusive(attempts) == attempts <= maxReconnectAttempts

CanReconnectAlways(attempts) == TRUE

\* riko.ts:51  this.reconnectAttempts < this.maxReconnectAttempts
CanReconnect(attempts) == attempts < maxReconnectAttempts

\* Mutant: onopen leaves the counter as it is.
AttemptsKeptOnOpen(attempts) == attempts

\* riko.ts:23  this.reconnectAttempts = 0
AttemptsAfterOpen(attempts) == 0

\* Mutant: sendMessage tests this.ws only, not its readyState.
ChannelOpenIgnoringReadyState == ws # 0

\* riko.ts:81  this.ws && this.ws.readyState === WebSocket.OPEN
ChannelOpen == ws # 0 /\ sockets[ws] = "OPEN"

\* riko.ts:98  resolve({ text: data, emotion: 'neutral' })
HandleResponseResult(data) == Response(data, "neutral")

\* Mutant: the deadline rejects the promise.
TimeoutRejects == Rejected

\* riko.ts:92  resolve(null)
TimeoutResult == NullResult

\* Mutant: the non-success status is thrown outside the try block.
SendHTTPResultUncaught(answer) ==
    IF answer.transport # "ok" THEN NullResult
    ELSE IF ~answer.ok THEN Rejected
    ELSE IF ~JSONparses(answer.body) THEN NullResult
    ELSE Response(JSONfirst(answer.body), JSONsecond(answer.body))

\* riko.ts:110-128  the value sendHTTPMessage returns for an answer of the endpoint
SendHTTPResult(answer) ==
    IF answer.transport # "ok" THEN NullResult            \* fetch rejects: caught
    ELSE IF ~answer.ok THEN NullResult                     \* throw new Error: caught
    ELSE IF ~JSONparses(answer.body) THEN NullResult       \* response.json() rejects: caught
    ELSE Response(JSONfirst(answer.body), JSONsecond(answer.body))

\* riko.ts:157-162  the callbacks emit(event, data) calls
Called(event) == listeners[event]

Emission(event, data) == [event |-> event, data |-> data, to |-> Called(event)]

\* The lowest slot that holds no socket object with events outstanding.
FreeSlots == {s \in Slots : sockets[s] \in {"NONE", "CLOSED"}}

NewSlot == CHOOSE s \in FreeSlots : \A t \in FreeSlots : s <= t

Live(s) == sockets[s] \in {"CONNECTING", "OPEN", "CLOSING"}

\* A closed socket object is dropped from the model once this.ws stops referring to it.
Dropped(socks, ref) ==
    [s \in Slots |-> IF socks[s] = "CLOSED" /\ s # ref THEN "NONE" ELSE socks[s]]

(***************************************************************************)
(* riko.ts:15-48  initializeConnection.  new WebSocket(...) either returns *)
(* a socket in state CONNECTING, which is stored in this.ws, or throws,    *)
(* which is caught and leaves this.ws as it was.                           *)
(***************************************************************************)
InitializeConnection(constructed) ==
    IF constructed
    THEN /\ FreeSlots # {}
         /\ ws' = NewSlot
         /\ sockets' = Dropped([sockets EXCEPT ![NewSlot] = "CONNECTING"], NewSlot)
    ELSE /\ ws' = ws
         /\ sockets' = sockets

(***************************************************************************)
(* riko.ts:50-62  attemptReconnect.                                        *)
(***************************************************************************)
AttemptReconnect ==
    IF CanReconnect(reconnectAttempts)
    THEN /\ Len(reconnectTimers) < MaxReconnectTimers
         /\ reconnectAttempts' = reconnectAttempts + 1
         /\ reconnectTimers' =
                Append(reconnectTimers,
                       [remaining |-> ReconnectDelay(reconnectAttempts + 1),
                        delay |-> ReconnectDelay(reconnectAttempts + 1),
                        attempt |-> reconnectAttempts + 1,
                        run |-> Min(closesSinceOpen + 1, TotalCap)])
         /\ totalReconnects' = IF counting THEN Min(totalReconnects + 1, TotalCap)
                                         ELSE totalReconnects
    ELSE /\ reconnectAttempts' = reconnectAttempts
         /\ reconnectTimers' = reconnectTimers
         /\ totalReconnects' = totalReconnects

\* The reset timers that may be pending at once: one for each response that
\* may be outstanding, so a run with room for one more sendMessage call has
\* room for one more reset timer.
MouthTimerRoom == MaxMouthTimers + Len(requests) - MaxRequests

\* Mutant: the trigger schedules no reset.
TriggerMouthAnimationNoReset(intensity) ==
    /\ Len(mouthTimers) < MouthTimerRoom
    /\ hookCalls' = IF hook THEN <<intensity>> ELSE <<>>
    /\ mouthTimers' = mouthTimers

\* Mutant: the global trigger is called without the typeof test.
TriggerMouthAnimationUnguarded(intensity) ==
    /\ Len(mouthTimers) < MouthTimerRoom
    /\ hookCalls' = <<intensity>>
    /\ mouthTimers' = Append(mouthTimers, MouthResetMs)

(***************************************************************************)
(* riko.ts:131-141  triggerMouthAnimation(intensity), intensity in tenths. *)
(***************************************************************************)
TriggerMouthAnimation(intensity) ==
    /\ Len(mouthTimers) < MouthTimerRoom
    /\ hookCalls' = IF hook THEN <<intensity>> ELSE <<>>
    /\ mouthTimers' = Append(mouthTimers, MouthResetMs)

(***************************************************************************)
(* The avatar (riko.ts:338-573): numbers.                                  *)
(***************************************************************************)
Unit == 1000                 \* the fixed-point value of 1.0

blinkDuration == 150         \* riko.ts:368
blinkInterval == 4500        \* riko.ts:369
BlinkFloor == 100            \* riko.ts:496  Math.max(0.1, blinkAmount)
BlinkTravel == 900           \* riko.ts:491-492  the factor 0.9
SpeakTarget == 800           \* riko.ts:544  targetIntensity = 0.8
SmoothingDivisor == 10       \* riko.ts:521  the factor 0.1
RenderThreshold == 10        \* riko.ts:524  currentIntensity > 0.01
OpenFactor == 300            \* riko.ts:525  the factor 0.3
JitterFactor == 50           \* riko.ts:529  the factor 0.05
HeuristicCap == 10           \* riko.ts:446  foundEyes.length < 10

Max(a, b) == IF a > b THEN a ELSE b

\* a / b rounded to the nearest integer, halves away from zero (b > 0).
RoundDiv(a, b) == IF a >= 0 THEN (2 * a + b) \div (2 * b) ELSE -((b - 2 * a) \div (2 * b))

\* The fixed-point product of two fixed-point numbers.
Times(a, b) == RoundDiv(a * b, Unit)

Vector3(x, y, z) == [x |-> x, y |-> y, z |-> z]

(***************************************************************************)
(* Mesh names are sequences of characters.                                 *)
(***************************************************************************)
UpperLetters == <<"A", "B", "C", "D", "E", "F", "G", "H", "I", "J", "K", "L", "M",
                  "N", "O", "P", "Q", "R", "S", "T", "U", "V", "W", "X", "Y", "Z">>

LowerLetters == <<"a", "b", "c", "d", "e", "f", "g", "h", "i", "j", "k", "l", "m",
                  "n", "o", "p", "q", "r", "s", "t", "u", "v", "w", "x", "y", "z">>

toLowerCase(name) ==
    [i \in 1..Len(name) |->
        IF \E k \in 1..26 : UpperLetters[k] = name[i]
        THEN LowerLetters[CHOOSE k \in 1..26 : UpperLetters[k] = name[i]]
        ELSE name[i]]

includes(name, part) ==
    \E i \in 1..(Len(name) - Len(part) + 1) : SubSeq(name, i, i + Len(part) - 1) = part

\* riko.ts:410
IsEyeName(name) ==
    \/ includes(toLowerCase(name), <<"e", "y", "e">>)
    \/ includes(toLowerCase(name), <<"e", "y", "e", "l", "i", "d">>)
    \/ includes(toLowerCase(name), <<"l", "i", "d">>)

\* riko.ts:417
IsMouthName(name) ==
    \/ includes(toLowerCase(name), <<"m", "o", "u", "t", "h">>)
    \/ includes(toLowerCase(name), <<"l", "i", "p">>)
    \/ includes(toLowerCase(name), <<"j", "a", "w">>)

(***************************************************************************)
(* Meshes of the loaded model.  `small` and `nearFace` are the two tests   *)
(* of the heuristic (riko.ts:443-444) on the mesh's geometry and position. *)
(***************************************************************************)
MeshEye ==
    [name |-> <<"E", "y", "e", "_", "L">>, scale |-> Vector3(1000, 1000, 1000),
     small |-> TRUE, nearFace |-> TRUE]

MeshEyelid ==
    [name |-> <<"E", "y", "e", "l", "i", "d">>, scale |-> Vector3(1000, 500, 1000),
     small |-> TRUE, nearFace |-> TRUE]

MeshMouth ==
    [name |-> <<"M", "o", "u", "t", "h">>, scale |-> Vector3(1200, 800, 1000),
     small |-> TRUE, nearFace |-> TRUE]

MeshJaw ==
    [name |-> <<"J", "a", "w">>, scale |-> Vector3(900, 1100, 1000),
     small |-> FALSE, nearFace |-> TRUE]

MeshBody ==
    [name |-> <<"B", "o", "d", "y">>, scale |-> Vector3(1000, 1000, 1000),
     small |-> FALSE, nearFace |-> FALSE]

MeshPart ==
    [name |-> <<"P", "a", "r", "t">>, scale |-> Vector3(1000, 1000, 1000),
     small |-> TRUE, nearFace |-> TRUE]

\* Every traversal order of a set of meshes.
Orders(meshes) ==
    {order \in [1..Cardinality(meshes) -> meshes] :
        \A i, j \in 1..Cardinality(meshes) : order[i] = order[j] => i = j}

\* A model with more small meshes near the face than the heuristic accepts.
CrowdScene == [i \in 1..(HeuristicCap + 2) |-> IF i = 1 THEN MeshBody ELSE MeshPart]

\* The models the classification effect is run on.
ClassifyScenes ==
    Orders({MeshEye, MeshEyelid, MeshMouth, MeshJaw, MeshBody})
    \cup Orders({MeshMouth, MeshJaw, MeshBody})
    \cup {CrowdScene}

\* The models that are animated: one whose eye is found by name, and one
\* with no eye name, whose eyes are found by the heuristic.
AvatarScenes == {<<MeshEye, MeshMouth, MeshBody>>, <<MeshMouth, MeshBody>>}

(***************************************************************************)
(* riko.ts:401-457  the classification effect.                             *)
(***************************************************************************)
\* riko.ts:405-415  the first traversal: foundEyes after the children from i on
RECURSIVE EyesByName(_, _)
EyesByName(sc, i) ==
    IF i > Len(sc) THEN <<>>
    ELSE (IF IsEyeName(sc[i].name) THEN <<i>> ELSE <<>>) \o EyesByName(sc, i + 1)

\* riko.ts:431-453  the second traversal, started with foundEyes = found
RECURSIVE EyesByHeuristic(_, _, _)
EyesByHeuristic(sc, i, found) ==
    IF i > Len(sc) THEN found
    ELSE EyesByHeuristic(sc, i + 1,
                         IF sc[i].small /\ sc[i].nearFace /\ Len(found) < HeuristicCap
                         THEN Append(found, i) ELSE found)

\* Mutant: the second traversal runs whatever the first one found.
FoundEyesAlwaysHeuristic(sc) == EyesByHeuristic(sc, 1, EyesByName(sc, 1))

\* riko.ts:428, 456
FoundEyes(sc) ==
    IF Len(EyesByName(sc, 1)) = 0 THEN EyesByHeuristic(sc, 1, <<>>) ELSE EyesByName(sc, 1)

\* riko.ts:457
EyeScales(sc) == [k \in 1..Len(FoundEyes(sc)) |-> sc[FoundEyes(sc)[k]].scale]

\* riko.ts:417-423  the children setMouthMesh is called with, in order.  The
\* test !mouthMesh reads the state of the render the effect belongs to,
\* which no call of setMouthMesh in this run of the effect changes.
RECURSIVE SetMouthMeshCalls(_, _, _)
SetMouthMeshCalls(sc, i, rendered) ==
    IF i > Len(sc) THEN <<>>
    ELSE (IF IsMouthName(sc[i].name) /\ rendered = 0 THEN <<i>> ELSE <<>>)
         \o SetMouthMeshCalls(sc, i + 1, rendered)

\* The state after the effect: the last call of a state setter wins.
MouthMeshAfter(sc, rendered) ==
    IF Len(SetMouthMeshCalls(sc, 1, rendered)) = 0 THEN rendered
    ELSE SetMouthMeshCalls(sc, 1, rendered)[Len(SetMouthMeshCalls(sc, 1, rendered))]

(***************************************************************************)
(* riko.ts:486-496  the blink curve.                                       *)
(***************************************************************************)
\* riko.ts:487  Math.min(elapsed / blinkState.blinkDuration, 1)
Progress(elapsed) == Min(RoundDiv(elapsed * Unit, blinkDuration), Unit)

\* riko.ts:490-492
BlinkAmount(progress) ==
    IF 2 * progress < Unit
    THEN Unit - Times(progress * 2, BlinkTravel)
    ELSE BlinkFloor + Times((progress - Unit \div 2) * 2, BlinkTravel)

\* riko.ts:496  originalEyeScales[index].y * Math.max(0.1, blinkAmount)
BlinkY(restY, progress) == Times(restY, Max(BlinkFloor, BlinkAmount(progress)))

(***************************************************************************)
(* riko.ts:521-530  the mouth curve.                                       *)
(***************************************************************************)
\* Mutant: the current intensity is set to the target at once.
SmoothedAtOnce(current, target) == target

\* riko.ts:521  currentIntensity += (targetIntensity - currentIntensity) * 0.1
Smoothed(current, target) == current + RoundDiv(target - current, SmoothingDivisor)

\* Mutant: the opening is added to the rest scale, not multiplied with it.
MouthYOffset(restY, current) == restY + Times(current, OpenFactor)

\* riko.ts:525-526
MouthY(restY, current) == Times(restY, Unit + Times(current, OpenFactor))

\* riko.ts:529-530  sine is Math.sin(state.clock.elapsedTime * 20)
MouthX(restX, current, sine) == Times(restX, Unit + Times(Times(sine, JitterFactor), current))

\* riko.ts:364-377  the refs as the first render creates them, at time t
NewBlinkState(t) == [isBlinking |-> FALSE, lastBlinkTime |-> t, blinkStartTime |-> 0]

NewMouthAnim ==
    [isSpeaking |-> FALSE, speakEndTime |-> 0, currentIntensity |-> 0, targetIntensity |-> 0]

NoEpisode == [calls |-> 0, silences |-> 0, replaced |-> -1]

\* riko.ts:356-377  the component has rendered for the model sc; the
\* classification effect has not run yet.
Rendered(sc) ==
    /\ now = 0
    /\ scene = sc
    /\ meshScale = [i \in 1..Len(sc) |-> sc[i].scale]
    /\ blinkState = NewBlinkState(0)
    /\ mouthAnim = NewMouthAnim
    /\ speaks = 0
    /\ episode = NoEpisode
    /\ blinkStarts = <<>>

Unclassified(sc) ==
    /\ Rendered(sc)
    /\ group = {}
    /\ loaded = FALSE
    /\ eyeMeshes = <<>>
    /\ originalEyeScales = <<>>
    /\ mouthMesh = 0
    /\ originalMouthScale = <<>>

\* The component after its classification effect (riko.ts:379-466) has run.
Classified(sc) ==
    /\ Rendered(sc)
    /\ group = DOMAIN sc
    /\ loaded = TRUE
    /\ eyeMeshes = FoundEyes(sc)
    /\ originalEyeScales = EyeScales(sc)
    /\ mouthMesh = MouthMeshAfter(sc, 0)
    /\ originalMouthScale = IF MouthMeshAfter(sc, 0) = 0 THEN <<>>
                            ELSE <<sc[MouthMeshAfter(sc, 0)].scale>>

\* LiveInterface.tsx:17, 44-46  the connection status of an interface whose
\* mount effect has not run
StatusUnset == connectionStatus = "connecting" /\ statusTimers = <<>>

\* LiveInterface.tsx:15  no text has been typed, no message sent, and no
\* avatar has registered the global trigger.
InterfaceUnused == inputMessage = "" /\ awaiting = {} /\ avatars = {} /\ StatusUnset

\* No avatar is rendered.
NotMounted == Unclassified(<<>>) /\ framePeriod = 0 /\ InterfaceUnused

(***************************************************************************)
(* Initial state: the module-level `new RikoService()` has run             *)
(* (riko.ts:11-13, 173).                                                   *)
(***************************************************************************)
ConstructedWith(subscribed, registered) ==
    /\ \E constructed \in BOOLEAN :
          IF constructed
          THEN ws = 1 /\ sockets = [s \in Slots |-> IF s = 1 THEN "CONNECTING" ELSE "NONE"]
          ELSE ws = 0 /\ sockets = [s \in Slots |-> "NONE"]
    /\ listeners = subscribed
    /\ reconnectAttempts = 0
    /\ reconnectTimers = <<>>
    /\ wsOut = <<>>
    /\ httpOut = <<>>
    /\ mouthTimers = <<>>
    /\ hook = registered
    /\ hookCalls = <<>>
    /\ emitted = <<>>
    /\ resolvedNow = {}
    /\ answered = <<>>
    /\ closesSinceOpen = 0
    /\ totalReconnects = 0
    /\ exhausted = FALSE
    /\ received = <<>>

\* No component has subscribed to the service or registered the global trigger.
Constructed == ConstructedWith([e \in EventNames |-> {}], FALSE)

Init ==
    /\ Constructed
    /\ NotMounted
    /\ requests = [r \in 1..MaxRequests |-> UnusedRequest]
    /\ counting = FALSE

(***************************************************************************)
(* riko.ts:21-25  ws.onopen                                                *)
(***************************************************************************)
WsOpenInService(s) ==
    /\ sockets[s] = "CONNECTING"
    /\ sockets' = [sockets EXCEPT ![s] = "OPEN"]
    /\ reconnectAttempts' = AttemptsAfterOpen(reconnectAttempts)
    /\ emitted' = <<Emission("connection", "connected")>>
    /\ closesSinceOpen' = 0
    /\ resolvedNow' = {}
    /\ hookCalls' = <<>>
    /\ answered' = <<>>
    /\ UNCHANGED <<ws, listeners, reconnectTimers, requests, wsOut, httpOut, mouthTimers,
                   hook, totalReconnects, exhausted, counting>>
    /\ received' = <<>>

WsOpen(s) == WsOpenInService(s) /\ UNCHANGED componentVars

(***************************************************************************)
(* riko.ts:36-44  ws.onerror (logs only) and ws.onclose.  A failed         *)
(* connection fires error and then close in one task; the socket is        *)
(* CLOSED when either handler runs.                                        *)
(***************************************************************************)
WsCloseInService(s, withError) ==
    /\ Live(s)
    /\ sockets' = [sockets EXCEPT ![s] = IF ws = s THEN "CLOSED" ELSE "NONE"]
    /\ emitted' = <<Emission("connection", "disconnected")>>
    /\ AttemptReconnect
    /\ closesSinceOpen' = Min(closesSinceOpen + 1, TotalCap)
    /\ exhausted' = (exhausted \/ reconnectAttempts >= maxReconnectAttempts)
    /\ resolvedNow' = {}
    /\ hookCalls' = <<>>
    /\ answered' = <<>>
    /\ UNCHANGED <<ws, listeners, requests, wsOut, httpOut, mouthTimers, hook, counting>>
    /\ received' = <<>>

WsClose(s, withError) == WsCloseInService(s, withError) /\ UNCHANGED componentVars

(***************************************************************************)
(* The remote end starts the closing handshake of an open socket: its      *)
(* readyState (read at riko.ts:81) is CLOSING until the close event.       *)
(***************************************************************************)
WsClosing(s) ==
    /\ sockets[s] = "OPEN"
    /\ sockets' = [sockets EXCEPT ![s] = "CLOSING"]
    /\ emitted' = <<>>
    /\ resolvedNow' = {}
    /\ hookCalls' = <<>>
    /\ answered' = <<>>
    /\ UNCHANGED <<ws, listeners, reconnectAttempts, reconnectTimers, requests, wsOut,
                   httpOut, mouthTimers, hook, closesSinceOpen, totalReconnects,
                   exhausted, counting>>
    /\ received' = <<>>
    /\ UNCHANGED componentVars

(***************************************************************************)
(* riko.ts:56-58  the reconnection timer runs initializeConnection.        *)
(***************************************************************************)
\* Mutant: the timer is an interval timer, which stays armed when it runs.
ReconnectTimerRepeats(i, constructed) ==
    /\ i \in DOMAIN reconnectTimers
    /\ reconnectTimers[i].remaining = 0
    /\ reconnectTimers' = [reconnectTimers EXCEPT ![i].remaining = reconnectTimers[i].delay]
    /\ InitializeConnection(constructed)
    /\ emitted' = <<>>
    /\ resolvedNow' = {}
    /\ hookCalls' = <<>>
    /\ answered' = <<>>
    /\ UNCHANGED <<listeners, reconnectAttempts, requests, wsOut, httpOut, mouthTimers,
                   hook, closesSinceOpen, totalReconnects, exhausted, counting>>
    /\ received' = <<>>
    /\ UNCHANGED componentVars

ReconnectTimerFires(i, constructed) ==
    /\ i \in DOMAIN reconnectTimers
    /\ reconnectTimers[i].remaining = 0
    /\ reconnectTimers' = [j \in 1..(Len(reconnectTimers) - 1) |->
                              IF j < i THEN reconnectTimers[j] ELSE reconnectTimers[j + 1]]
    /\ InitializeConnection(constructed)
    /\ emitted' = <<>>
    /\ resolvedNow' = {}
    /\ hookCalls' = <<>>
    /\ answered' = <<>>
    /\ UNCHANGED <<listeners, reconnectAttempts, requests, wsOut, httpOut, mouthTimers,
                   hook, closesSinceOpen, totalReconnects, exhausted, counting>>
    /\ received' = <<>>
    /\ UNCHANGED componentVars

(***************************************************************************)
(* riko.ts:27-34, 64-76  ws.onmessage and handleMessage.  A 'text'         *)
(* listener registered by sendMessage (riko.ts:95-99) cancels its timer,   *)
(* removes itself and resolves its promise; resolving a settled promise    *)
(* has no effect.                                                          *)
(***************************************************************************)
ReadyState == IF ws = 0 THEN "null" ELSE sockets[ws]

HandlersCalled(event) == {r \in ReqIds : HandlerOf(r) \in Called(event)}

AfterHandleResponse(req, data) ==
    [req EXCEPT !.timer = -1,
                !.age = IF req.state = "pending" THEN 0 ELSE @,
                !.state = "resolved",
                !.result = IF req.state = "pending" THEN HandleResponseResult(data) ELSE @]

WsMessageInService(s, raw) ==
    /\ sockets[s] = "OPEN"
    /\ IF ~JSONparses(raw)
       THEN /\ emitted' = <<>>
            /\ resolvedNow' = {}
            /\ hookCalls' = <<>>
            /\ UNCHANGED <<listeners, requests, mouthTimers>>
       ELSE LET type == JSONfirst(raw)
                content == JSONsecond(raw)
            IN  IF type = "text_response"
                THEN /\ emitted' = <<Emission("text", content)>>
                     /\ requests' = [r \in ReqIds |->
                                        IF r \in HandlersCalled("text")
                                        THEN AfterHandleResponse(requests[r], content)
                                        ELSE requests[r]]
                     /\ resolvedNow' = {r \in HandlersCalled("text") :
                                            requests[r].state = "pending"}
                     /\ listeners' = [listeners EXCEPT !["text"] =
                                         @ \ {HandlerOf(r) : r \in ReqIds}]
                     /\ TriggerMouthAnimation(5)
                ELSE IF type = "audio_response"
                THEN /\ emitted' = <<Emission("audio", content)>>
                     /\ resolvedNow' = {}
                     /\ TriggerMouthAnimation(8)
                     /\ UNCHANGED <<listeners, requests>>
                ELSE IF type = "emotion"
                THEN /\ emitted' = <<Emission("emotion", content)>>
                     /\ resolvedNow' = {}
                     /\ hookCalls' = <<>>
                     /\ UNCHANGED <<listeners, requests, mouthTimers>>
                ELSE /\ emitted' = <<>>
                     /\ resolvedNow' = {}
                     /\ hookCalls' = <<>>
                     /\ UNCHANGED <<listeners, requests, mouthTimers>>
    /\ answered' = <<>>
    /\ UNCHANGED <<sockets, ws, reconnectAttempts, reconnectTimers, wsOut, httpOut, hook,
                   closesSinceOpen, totalReconnects, exhausted, counting>>
    /\ received' = raw

\* The handler with no component behind the listeners and the global trigger.
WsMessage(s, raw) == WsMessageInService(s, raw) /\ UNCHANGED componentVars

(***************************************************************************)
(* riko.ts:78-107  sendMessage, and riko.ts:109-117 the request that       *)
(* sendHTTPMessage issues.  Date.now() in the payload is left out.         *)
(***************************************************************************)
Unused == {r \in ReqIds : requests[r].state = "unused"}

NextRequest == CHOOSE r \in Unused : \A q \in Unused : r <= q

SendMessageInService(message) ==
    /\ Unused # {}
    /\ IF ChannelOpen
       THEN /\ wsOut' = Append(wsOut, [readyState |-> ReadyState,
                                       raw |-> JSONstringify("text", message)])
            /\ requests' = [requests EXCEPT ![NextRequest] =
                               [state |-> "pending", path |-> "ws", text |-> message,
                                timer |-> ResponseTimeoutMs, age |-> 0,
                                result |-> NoResult]]
            /\ listeners' = [listeners EXCEPT !["text"] = @ \cup {HandlerOf(NextRequest)}]
            /\ UNCHANGED httpOut
       ELSE /\ httpOut' = Append(httpOut, [readyState |-> ReadyState, message |-> message])
            /\ requests' = [requests EXCEPT ![NextRequest] =
                               [state |-> "pending", path |-> "http", text |-> message,
                                timer |-> -1, age |-> 0,
                                result |-> NoResult]]
            /\ UNCHANGED <<wsOut, listeners>>
    /\ emitted' = <<>>
    /\ resolvedNow' = {}
    /\ hookCalls' = <<>>
    /\ answered' = <<>>
    /\ UNCHANGED <<sockets, ws, reconnectAttempts, reconnectTimers, mouthTimers, hook,
                   closesSinceOpen, totalReconnects, exhausted, counting>>
    /\ received' = <<>>

SendMessage(message) == SendMessageInService(message) /\ UNCHANGED componentVars

(***************************************************************************)
(* riko.ts:91-93  the deadline timer of a request runs.                    *)
(***************************************************************************)
RequestTimeout(r) ==
    /\ requests[r].timer = 0
    /\ requests' = [requests EXCEPT ![r] =
                       [@ EXCEPT !.timer = -1,
                                 !.state = "resolved",
                                 !.result = IF requests[r].state = "pending"
                                            THEN TimeoutResult ELSE @]]
    /\ resolvedNow' = IF requests[r].state = "pending" THEN {r} ELSE {}
    /\ emitted' = <<>>
    /\ hookCalls' = <<>>
    /\ answered' = <<>>
    /\ UNCHANGED <<sockets, ws, listeners, reconnectAttempts, reconnectTimers, wsOut,
                   httpOut, mouthTimers, hook, closesSinceOpen, totalReconnects,
                   exhausted, counting>>
    /\ received' = <<>>
    /\ UNCHANGED componentVars

(***************************************************************************)
(* riko.ts:117-128  the fallback exchange ends.                            *)
(***************************************************************************)
HttpAnswer(r, answer) ==
    /\ requests[r].state = "pending"
    /\ requests[r].path = "http"
    /\ requests' = [requests EXCEPT ![r] =
                       [@ EXCEPT !.state = "resolved", !.result = SendHTTPResult(answer)]]
    /\ resolvedNow' = {r}
    /\ emitted' = <<>>
    /\ hookCalls' = <<>>
    /\ answered' = <<answer>>
    /\ UNCHANGED <<sockets, ws, listeners, reconnectAttempts, reconnectTimers, wsOut,
                   httpOut, mouthTimers, hook, closesSinceOpen, totalReconnects,
                   exhausted, counting>>
    /\ received' = <<>>
    /\ UNCHANGED componentVars

(***************************************************************************)
(* riko.ts:136-140  the delayed reset of triggerMouthAnimation runs.       *)
(***************************************************************************)
MouthTimerFiresInService(i) ==
    /\ i \in DOMAIN mouthTimers
    /\ mouthTimers[i] = 0
    /\ mouthTimers' = [j \in 1..(Len(mouthTimers) - 1) |->
                          IF j < i THEN mouthTimers[j] ELSE mouthTimers[j + 1]]
    /\ hookCalls' = IF hook THEN <<0>> ELSE <<>>
    /\ emitted' = <<>>
    /\ resolvedNow' = {}
    /\ answered' = <<>>
    /\ UNCHANGED <<sockets, ws, listeners, reconnectAttempts, reconnectTimers, requests,
                   wsOut, httpOut, hook, closesSinceOpen, totalReconnects, exhausted, counting>>
    /\ received' = <<>>

MouthTimerFires(i) == MouthTimerFiresInService(i) /\ UNCHANGED componentVars

(***************************************************************************)
(* riko.ts:164-170  disconnect.  close() moves a connecting or open socket *)
(* to CLOSING; its close event, and with it onclose, comes later.          *)
(***************************************************************************)
Disconnect ==
    /\ sockets' = IF ws = 0 THEN sockets
                  ELSE Dropped([sockets EXCEPT ![ws] =
                                   IF @ \in {"CONNECTING", "OPEN"} THEN "CLOSING" ELSE @], 0)
    /\ ws' = 0
    /\ listeners' = [e \in EventNames |-> {}]
    /\ emitted' = <<>>
    /\ resolvedNow' = {}
    /\ hookCalls' = <<>>
    /\ answered' = <<>>
    /\ UNCHANGED <<reconnectAttempts, reconnectTimers, requests, wsOut, httpOut,
                   mouthTimers, hook, closesSinceOpen, totalReconnects, exhausted, counting>>
    /\ received' = <<>>
    /\ UNCHANGED componentVars

(***************************************************************************)
(* riko.ts:143-155  on and off, called by the code around the service.     *)
(***************************************************************************)
On(event, callback) ==
    /\ <<callback, 0>> \notin listeners[event]
    /\ listeners' = [listeners EXCEPT ![event] = @ \cup {<<callback, 0>>}]
    /\ emitted' = <<>>
    /\ resolvedNow' = {}
    /\ hookCalls' = <<>>
    /\ answered' = <<>>
    /\ UNCHANGED <<sockets, ws, reconnectAttempts, reconnectTimers, requests, wsOut,
                   httpOut, mouthTimers, hook, closesSinceOpen, totalReconnects,
                   exhausted, counting>>
    /\ received' = <<>>
    /\ UNCHANGED componentVars

Off(event, callback) ==
    /\ <<callback, 0>> \in listeners[event]
    /\ listeners' = [listeners EXCEPT ![event] = @ \ {<<callback, 0>>}]
    /\ emitted' = <<>>
    /\ resolvedNow' = {}
    /\ hookCalls' = <<>>
    /\ answered' = <<>>
    /\ UNCHANGED <<sockets, ws, reconnectAttempts, reconnectTimers, requests, wsOut,
                   httpOut, mouthTimers, hook, closesSinceOpen, totalReconnects,
                   exhausted, counting>>
    /\ received' = <<>>
    /\ UNCHANGED componentVars

(***************************************************************************)
(* riko.ts:559-565  the avatar registers the global trigger when it mounts *)
(* and deletes it when it is torn down.                                    *)
(***************************************************************************)
AvatarMount ==
    /\ ~hook
    /\ hook' = TRUE
    /\ emitted' = <<>>
    /\ resolvedNow' = {}
    /\ hookCalls' = <<>>
    /\ answered' = <<>>
    /\ UNCHANGED <<sockets, ws, listeners, reconnectAttempts, reconnectTimers, requests,
                   wsOut, httpOut, mouthTimers, closesSinceOpen, totalReconnects,
                   exhausted, counting>>
    /\ received' = <<>>
    /\ UNCHANGED componentVars

AvatarUnmount ==
    /\ hook
    /\ hook' = FALSE
    /\ emitted' = <<>>
    /\ resolvedNow' = {}
    /\ hookCalls' = <<>>
    /\ answered' = <<>>
    /\ UNCHANGED <<sockets, ws, listeners, reconnectAttempts, reconnectTimers, requests,
                   wsOut, httpOut, mouthTimers, closesSinceOpen, totalReconnects,
                   exhausted, counting>>
    /\ received' = <<>>
    /\ UNCHANGED componentVars

(***************************************************************************)
(* Time passes until the next pending timer is due.  The age of a request  *)
(* is counted while its deadline timer is pending.                         *)
(***************************************************************************)
Remaining ==
    {reconnectTimers[i].remaining : i \in DOMAIN reconnectTimers}
    \cup {mouthTimers[i] : i \in DOMAIN mouthTimers}
    \cup {requests[r].timer : r \in {q \in ReqIds : requests[q].timer >= 0}}

NextDue == CHOOSE d \in Remaining : \A e \in Remaining : d <= e

\* ms milliseconds pass, no more than the time until the next timer is due.
Elapse(ms) ==
    /\ Remaining # {}
    /\ ms > 0
    /\ ms <= NextDue
    /\ reconnectTimers' = [i \in DOMAIN reconnectTimers |->
                              [reconnectTimers[i] EXCEPT !.remaining = @ - ms]]
    /\ mouthTimers' = [i \in DOMAIN mouthTimers |-> mouthTimers[i] - ms]
    /\ requests' = [r \in ReqIds |->
                       IF requests[r].timer >= 0
                       THEN [requests[r] EXCEPT !.timer = @ - ms, !.age = @ + ms]
                       ELSE requests[r]]
    /\ emitted' = <<>>
    /\ resolvedNow' = {}
    /\ hookCalls' = <<>>
    /\ answered' = <<>>
    /\ UNCHANGED <<sockets, ws, listeners, reconnectAttempts, wsOut, httpOut, hook,
                   closesSinceOpen, totalReconnects, exhausted, counting>>
    /\ received' = <<>>
    /\ UNCHANGED componentVars

Tick == Elapse(NextDue)

Next ==
    \/ \E s \in Slots : WsOpen(s)
    \/ \E s \in Slots, raw \in InboundFrames : WsMessage(s, raw)
    \/ \E s \in Slots : WsClosing(s)
    \/ \E s \in Slots, withError \in BOOLEAN : WsClose(s, withError)
    \/ \E i \in 1..MaxReconnectTimers, constructed \in BOOLEAN :
          ReconnectTimerFires(i, constructed)
    \/ \E message \in Messages : SendMessage(message)
    \/ \E r \in ReqIds : RequestTimeout(r)
    \/ \E r \in ReqIds, answer \in HttpAnswers : HttpAnswer(r, answer)
    \/ \E i \in 1..MaxMouthTimers : MouthTimerFires(i)
    \/ Disconnect
    \/ \E sub \in Subscriptions : On(sub[1], sub[2])
    \/ \E sub \in Subscriptions : Off(sub[1], sub[2])
    \/ AvatarMount
    \/ AvatarUnmount
    \/ Tick

Spec == Init /\ [][Next]_vars

(***************************************************************************)
(* The service with room for one more sendMessage call, so that two calls  *)
(* can be pending at the same time.                                        *)
(***************************************************************************)
InitConcurrent ==
    /\ Constructed
    /\ NotMounted
    /\ requests = [r \in 1..(MaxRequests + 1) |-> UnusedRequest]
    /\ counting = FALSE

SpecConcurrent == InitConcurrent /\ [][Next]_vars

(***************************************************************************)
(* The life of the duplex channel alone, with the number of reconnections  *)
(* scheduled since construction kept in totalReconnects.                   *)
(***************************************************************************)
InitLifetime ==
    /\ Constructed
    /\ NotMounted
    /\ requests = [r \in 1..MaxRequests |-> UnusedRequest]
    /\ counting = TRUE

NextLifetime ==
    \/ \E s \in Slots : WsOpen(s)
    \/ \E s \in Slots : WsClosing(s)
    \/ \E s \in Slots, withError \in BOOLEAN : WsClose(s, withError)
    \/ \E i \in 1..MaxReconnectTimers, constructed \in BOOLEAN :
          ReconnectTimerFires(i, constructed)
    \/ Disconnect
    \/ Tick

SpecLifetime == InitLifetime /\ [][NextLifetime]_vars

(***************************************************************************)
(* The service without the calls of on, off and the avatar around it, and  *)
(* with the scheduling of the event loop stated: a timer that is due runs, *)
(* and time passes while a timer is pending.                               *)
(***************************************************************************)
NextService ==
    \/ \E s \in Slots : WsOpen(s)
    \/ \E s \in Slots, raw \in InboundFrames : WsMessage(s, raw)
    \/ \E s \in Slots : WsClosing(s)
    \/ \E s \in Slots, withError \in BOOLEAN : WsClose(s, withError)
    \/ \E i \in 1..MaxReconnectTimers, constructed \in BOOLEAN :
          ReconnectTimerFires(i, constructed)
    \/ \E message \in Messages : SendMessage(message)
    \/ \E r \in ReqIds : RequestTimeout(r)
    \/ \E r \in ReqIds, answer \in HttpAnswers : HttpAnswer(r, answer)
    \/ \E i \in 1..MaxMouthTimers : MouthTimerFires(i)
    \/ Disconnect
    \/ Tick

FairSpec ==
    /\ Init
    /\ [][NextService]_vars
    /\ WF_vars(Tick)
    /\ WF_vars(\E r \in ReqIds : RequestTimeout(r))
    /\ WF_vars(\E i \in 1..MaxMouthTimers : MouthTimerFires(i))
    /\ WF_vars(\E i \in 1..MaxReconnectTimers, constructed \in BOOLEAN :
                  ReconnectTimerFires(i, constructed))

(***************************************************************************)
(* The avatar (riko.ts:338-573): effects, frame callback and trigger.      *)
(***************************************************************************)
serviceVars == <<sockets, ws, listeners, reconnectAttempts, reconnectTimers, requests, wsOut,
                 httpOut, mouthTimers, hook, hookCalls, emitted, resolvedNow, answered,
                 closesSinceOpen, totalReconnects, exhausted, counting, received>>

FrameGaps == {150, 4600}          \* time between two frames, free-running
FramePeriods == {16, 50, 75, 4600} \* periods of a fixed frame clock
Sines == {-1000, 1000}             \* values of Math.sin in the jitter
SpeakDurations == {150, 2000}     \* arguments of triggerMouthMovement

\* The latest time a frame is taken at.
Horizon == IF framePeriod = 0 THEN MaxNow ELSE MaxClockNow

(***************************************************************************)
(* riko.ts:379-466  the classification effect runs for the loaded model    *)
(* and the component renders with the state it set.                        *)
(***************************************************************************)
Classify ==
    /\ ~loaded
    /\ loaded' = TRUE
    /\ group' = DOMAIN scene
    /\ eyeMeshes' = FoundEyes(scene)
    /\ originalEyeScales' = EyeScales(scene)
    /\ mouthMesh' = MouthMeshAfter(scene, mouthMesh)
    /\ originalMouthScale' =
          IF Len(SetMouthMeshCalls(scene, 1, mouthMesh)) = 0 THEN originalMouthScale
          ELSE <<scene[MouthMeshAfter(scene, mouthMesh)].scale>>
    /\ UNCHANGED <<now, scene, meshScale, blinkState, mouthAnim, framePeriod, speaks,
                   episode, blinkStarts>>
    /\ UNCHANGED serviceVars
    /\ UNCHANGED interfaceVars

(***************************************************************************)
(* riko.ts:469-537  the frame callback, run gap ms after the latest frame. *)
(***************************************************************************)
\* The entries of the eye table that refer to mesh m and have a rest scale.
EyeEntries(m) == {k \in DOMAIN eyeMeshes : eyeMeshes[k] = m /\ k \in DOMAIN originalEyeScales}

LastEyeEntry(m) == CHOOSE k \in EyeEntries(m) : \A j \in EyeEntries(m) : j <= k

\* riko.ts:479
BlinkStarts(t) == ~blinkState.isBlinking /\ (t - blinkState.lastBlinkTime) > blinkInterval

\* Mutant: the start of a blink leaves lastBlinkTime as it was.
BlinkStateAtKeepsLast(t) ==
    IF BlinkStarts(t)
    THEN [isBlinking |-> TRUE, lastBlinkTime |-> blinkState.lastBlinkTime,
          blinkStartTime |-> t]
    ELSE blinkState

\* riko.ts:480-482
BlinkStateAt(t) ==
    IF BlinkStarts(t)
    THEN [isBlinking |-> TRUE, lastBlinkTime |-> t, blinkStartTime |-> t]
    ELSE blinkState

\* riko.ts:485-508  mesh.scale of mesh m after the blink part of the frame
ScaleAfterBlink(m, t) ==
    IF BlinkStateAt(t).isBlinking /\ EyeEntries(m) # {}
    THEN IF Progress(t - BlinkStateAt(t).blinkStartTime) >= Unit
         THEN originalEyeScales[LastEyeEntry(m)]
         ELSE [meshScale[m] EXCEPT
                  !.y = BlinkY(originalEyeScales[LastEyeEntry(m)].y,
                               Progress(t - BlinkStateAt(t).blinkStartTime))]
    ELSE meshScale[m]

\* Mutant: the speaking ends on a frame taken exactly at the deadline.
SpeakEndsAtDeadline(t) == mouthAnim.isSpeaking /\ t >= mouthAnim.speakEndTime

\* riko.ts:514
SpeakEnds(t) == mouthAnim.isSpeaking /\ t > mouthAnim.speakEndTime

\* riko.ts:514-521
MouthAnimAt(t) ==
    [isSpeaking |-> mouthAnim.isSpeaking /\ ~SpeakEnds(t),
     speakEndTime |-> mouthAnim.speakEndTime,
     targetIntensity |-> IF SpeakEnds(t) THEN 0 ELSE mouthAnim.targetIntensity,
     currentIntensity |->
         Smoothed(mouthAnim.currentIntensity,
                  IF SpeakEnds(t) THEN 0 ELSE mouthAnim.targetIntensity)]

\* riko.ts:524-534  mesh.scale of mesh m after the mouth part of the frame
ScaleAfterMouth(m, t, sine) ==
    IF mouthMesh = m /\ Len(originalMouthScale) > 0
    THEN IF MouthAnimAt(t).currentIntensity > RenderThreshold
         THEN [ScaleAfterBlink(m, t) EXCEPT
                  !.y = MouthY(originalMouthScale[1].y, MouthAnimAt(t).currentIntensity),
                  !.x = MouthX(originalMouthScale[1].x, MouthAnimAt(t).currentIntensity,
                               sine)]
         ELSE originalMouthScale[1]
    ELSE ScaleAfterBlink(m, t)

UseFrame(gap, sine) ==
    /\ framePeriod = 0 \/ gap = framePeriod
    /\ now + gap <= Horizon
    /\ now' = now + gap
    /\ blinkState' =
          [BlinkStateAt(now') EXCEPT
              !.isBlinking = @ /\ Progress(now' - BlinkStateAt(now').blinkStartTime) < Unit]
    /\ blinkStarts' = IF BlinkStarts(now') THEN Append(blinkStarts, now') ELSE blinkStarts
    /\ mouthAnim' = MouthAnimAt(now')
    /\ episode' = IF SpeakEnds(now') THEN [episode EXCEPT !.silences = @ + 1] ELSE episode
    /\ meshScale' = [m \in DOMAIN meshScale |-> ScaleAfterMouth(m, now', sine)]
    /\ UNCHANGED <<scene, group, loaded, eyeMeshes, originalEyeScales, mouthMesh,
                   originalMouthScale, framePeriod, speaks>>
    /\ UNCHANGED serviceVars
    /\ UNCHANGED interfaceVars

(***************************************************************************)
(* riko.ts:540-546  triggerMouthMovement(duration), also called as speak.  *)
(***************************************************************************)
\* Mutant: a call in flight only ever extends the deadline.
SpeakEndTimeExtended(duration) ==
    IF mouthAnim.isSpeaking THEN Max(mouthAnim.speakEndTime, now + duration)
    ELSE now + duration

\* riko.ts:543  performance.now() + duration
SpeakEndTime(duration) == now + duration

\* Mutant: a call on an avatar with no mouth mesh is ignored.
SpeakNeedsMouth(duration) ==
    /\ speaks < MaxSpeaks
    /\ mouthAnim' = IF mouthMesh = 0 THEN mouthAnim
                    ELSE [mouthAnim EXCEPT !.isSpeaking = TRUE,
                                           !.speakEndTime = SpeakEndTime(duration),
                                           !.targetIntensity = SpeakTarget]
    /\ speaks' = speaks + 1
    /\ episode' = IF mouthAnim.isSpeaking
                  THEN [episode EXCEPT !.calls = @ + 1, !.replaced = mouthAnim.speakEndTime]
                  ELSE [calls |-> 1, silences |-> 0, replaced |-> -1]
    /\ UNCHANGED <<now, scene, group, loaded, meshScale, eyeMeshes, originalEyeScales,
                   mouthMesh, originalMouthScale, blinkState, framePeriod, blinkStarts>>

\* Mutant: the call opens the mouth itself instead of leaving it to the frames.
SpeakAtOnce(duration) ==
    /\ speaks < MaxSpeaks
    /\ mouthAnim' = [mouthAnim EXCEPT !.isSpeaking = TRUE,
                                      !.speakEndTime = SpeakEndTime(duration),
                                      !.targetIntensity = SpeakTarget,
                                      !.currentIntensity = SpeakTarget]
    /\ speaks' = speaks + 1
    /\ episode' = IF mouthAnim.isSpeaking
                  THEN [episode EXCEPT !.calls = @ + 1, !.replaced = mouthAnim.speakEndTime]
                  ELSE [calls |-> 1, silences |-> 0, replaced |-> -1]
    /\ UNCHANGED <<now, scene, group, loaded, meshScale, eyeMeshes, originalEyeScales,
                   mouthMesh, originalMouthScale, blinkState, framePeriod, blinkStarts>>

Speak(duration) ==
    /\ speaks < MaxSpeaks
    /\ mouthAnim' = [mouthAnim EXCEPT !.isSpeaking = TRUE,
                                      !.speakEndTime = SpeakEndTime(duration),
                                      !.targetIntensity = SpeakTarget]
    /\ speaks' = speaks + 1
    /\ episode' = IF mouthAnim.isSpeaking
                  THEN [episode EXCEPT !.calls = @ + 1, !.replaced = mouthAnim.speakEndTime]
                  ELSE [calls |-> 1, silences |-> 0, replaced |-> -1]
    /\ UNCHANGED <<now, scene, group, loaded, meshScale, eyeMeshes, originalEyeScales,
                   mouthMesh, originalMouthScale, blinkState, framePeriod, blinkStarts>>

TriggerMouthMovement(duration) ==
    Speak(duration) /\ UNCHANGED serviceVars /\ UNCHANGED interfaceVars

(***************************************************************************)
(* riko.ts:357, 379-466  useGLTF hands the component another scene object: *)
(* the component renders again and the classification effect, whose        *)
(* dependencies are [scene, onLoad], runs for the model sc.  The effect    *)
(* clones the model, puts the clone in the group in place of the old one   *)
(* and classifies the clone's meshes; its closure holds the mouthMesh of   *)
(* the render it belongs to.  The refs keep their values.                  *)
(***************************************************************************)
Shifted(found, offset) == [k \in DOMAIN found |-> found[k] + offset]

LoadModel(sc) ==
    /\ loaded
    /\ Len(scene) + Len(sc) <= MaxMeshes
    /\ scene' = scene \o sc
    /\ group' = (Len(scene) + 1)..(Len(scene) + Len(sc))
    /\ meshScale' = meshScale \o [i \in 1..Len(sc) |-> sc[i].scale]
    /\ eyeMeshes' = Shifted(FoundEyes(sc), Len(scene))
    /\ originalEyeScales' = EyeScales(sc)
    /\ mouthMesh' =
          IF Len(SetMouthMeshCalls(sc, 1, mouthMesh)) = 0 THEN mouthMesh
          ELSE MouthMeshAfter(sc, mouthMesh) + Len(scene)
    /\ originalMouthScale' =
          IF Len(SetMouthMeshCalls(sc, 1, mouthMesh)) = 0 THEN originalMouthScale
          ELSE <<sc[MouthMeshAfter(sc, mouthMesh)].scale>>
    /\ UNCHANGED <<now, loaded, blinkState, mouthAnim, framePeriod, speaks, episode,
                   blinkStarts>>
    /\ UNCHANGED serviceVars
    /\ UNCHANGED interfaceVars

\* The service as constructed, with no call made on it.
ServiceIdle ==
    /\ Constructed
    /\ InterfaceUnused
    /\ ws = 1
    /\ requests = [r \in 1..MaxRequests |-> UnusedRequest]
    /\ counting = FALSE

(***************************************************************************)
(* The classification effect alone, on every model and traversal order.    *)
(***************************************************************************)
InitClassify ==
    /\ ServiceIdle
    /\ \E sc \in ClassifyScenes : Unclassified(sc)
    /\ framePeriod = 0

NextClassify == Classify

SpecClassify == InitClassify /\ [][NextClassify]_vars

(***************************************************************************)
(* The classified avatar, animated by frames that come at any of the gaps  *)
(* and by calls of its trigger.                                            *)
(***************************************************************************)
InitAvatar ==
    /\ ServiceIdle
    /\ \E sc \in AvatarScenes : Classified(sc)
    /\ framePeriod = 0

NextAvatar ==
    \/ \E gap \in FrameGaps, sine \in Sines : UseFrame(gap, sine)
    \/ \E duration \in SpeakDurations : TriggerMouthMovement(duration)

SpecAvatar == InitAvatar /\ [][NextAvatar]_vars

(***************************************************************************)
(* Models in which the classification effect misses: one with no eye, one  *)
(* with no mouth and one with neither; the effect, the frames of a clock   *)
(* and the calls of the trigger.                                           *)
(***************************************************************************)
MissScenes == {<<MeshJaw, MeshBody>>, <<MeshEye, MeshBody>>, <<MeshBody>>}

\* A frame clock with a frame inside the 2000 ms the interface speaks for.
SpeechPeriods == {1500}

InitMisses ==
    /\ ServiceIdle
    /\ \E sc \in MissScenes : Unclassified(sc)
    /\ framePeriod \in SpeechPeriods

NextMisses ==
    \/ Classify
    \/ \E sine \in Sines : UseFrame(framePeriod, sine)
    \/ \E duration \in SpeakDurations : TriggerMouthMovement(duration)

SpecMisses == InitMisses /\ [][NextMisses]_vars

(***************************************************************************)
(* The classified avatar under a fixed frame clock, with no trigger call.  *)
(***************************************************************************)
InitBlink ==
    /\ ServiceIdle
    /\ \E sc \in AvatarScenes : Classified(sc)
    /\ framePeriod \in FramePeriods

NextBlink == \E sine \in Sines : UseFrame(framePeriod, sine)

SpecBlink == InitBlink /\ [][NextBlink]_vars

(***************************************************************************)
(* The classified avatar under a slow frame clock, animated by its frames  *)
(* and by calls of its trigger, whose model is replaced by another one     *)
(* while it runs.                                                          *)
(***************************************************************************)
SlowPeriods == {period \in FramePeriods : period > blinkInterval}

InitReload ==
    /\ ServiceIdle
    /\ \E sc \in AvatarScenes : Classified(sc)
    /\ framePeriod \in SlowPeriods

NextReload ==
    \/ \E sc \in AvatarScenes : LoadModel(sc)
    \/ \E sine \in Sines : UseFrame(framePeriod, sine)
    \/ \E duration \in SpeakDurations : TriggerMouthMovement(duration)

SpecReload == InitReload /\ [][NextReload]_vars

(***************************************************************************)
(* The first version of the avatar component (riko.ts:184-334).  Its       *)
(* classification effect (riko.ts:204-276) finds the eyes as the second    *)
(* version does and looks for no mouth; its mouth state has the two        *)
(* intensities only, so isSpeaking and speakEndTime keep their initial     *)
(* values here.                                                            *)
(***************************************************************************)
Intensities == {0, 500, 800, 2000}     \* arguments of the global trigger: 0, 0.5, 0.8, 2

\* riko.ts:296-298
FirstBlinkAmount(progress) ==
    IF 2 * progress < Unit THEN Unit - progress * 2 ELSE (progress - Unit \div 2) * 2

\* riko.ts:292-314  mesh.scale of mesh m after the frame
FirstScaleAfterBlink(m, t) ==
    IF BlinkStateAt(t).isBlinking /\ EyeEntries(m) # {}
    THEN IF Progress(t - BlinkStateAt(t).blinkStartTime) >= Unit
         THEN originalEyeScales[LastEyeEntry(m)]
         ELSE [meshScale[m] EXCEPT
                  !.y = Times(originalEyeScales[LastEyeEntry(m)].y,
                              Max(BlinkFloor,
                                  FirstBlinkAmount(Progress(t - BlinkStateAt(t).blinkStartTime))))]
    ELSE meshScale[m]

\* riko.ts:278-318  the frame callback
FirstUseFrame(gap) ==
    /\ framePeriod = 0 \/ gap = framePeriod
    /\ now + gap <= Horizon
    /\ now' = now + gap
    /\ blinkState' =
          [BlinkStateAt(now') EXCEPT
              !.isBlinking = @ /\ Progress(now' - BlinkStateAt(now').blinkStartTime) < Unit]
    /\ blinkStarts' = IF BlinkStarts(now') THEN Append(blinkStarts, now') ELSE blinkStarts
    /\ mouthAnim' = [mouthAnim EXCEPT
                        !.currentIntensity = Smoothed(@, mouthAnim.targetIntensity)]
    /\ meshScale' = [m \in DOMAIN meshScale |-> FirstScaleAfterBlink(m, now')]
    /\ UNCHANGED <<scene, group, loaded, eyeMeshes, originalEyeScales, mouthMesh,
                   originalMouthScale, framePeriod, speaks, episode>>
    /\ UNCHANGED serviceVars
    /\ UNCHANGED interfaceVars

\* riko.ts:320-323  triggerMouthAnimation(intensity), the global trigger
SetTargetIntensity(intensity) ==
    /\ mouthAnim' = [mouthAnim EXCEPT !.targetIntensity = intensity]
    /\ UNCHANGED <<now, scene, group, loaded, meshScale, eyeMeshes, originalEyeScales,
                   mouthMesh, originalMouthScale, blinkState, framePeriod, speaks, episode,
                   blinkStarts>>

FirstTriggerMouthAnimation(intensity) ==
    SetTargetIntensity(intensity) /\ UNCHANGED serviceVars /\ UNCHANGED interfaceVars

\* riko.ts:184-276  the first version has rendered and classified the model sc
FirstClassified(sc) ==
    /\ Rendered(sc)
    /\ group = DOMAIN sc
    /\ loaded = TRUE
    /\ eyeMeshes = FoundEyes(sc)
    /\ originalEyeScales = EyeScales(sc)
    /\ mouthMesh = 0
    /\ originalMouthScale = <<>>

InitFirst ==
    /\ ServiceIdle
    /\ \E sc \in AvatarScenes : FirstClassified(sc)
    /\ framePeriod \in SlowPeriods

NextFirst ==
    \/ FirstUseFrame(framePeriod)
    \/ \E intensity \in Intensities : FirstTriggerMouthAnimation(intensity)

SpecFirst == InitFirst /\ [][NextFirst]_vars

(***************************************************************************)
(* The live interface (LiveInterface.tsx:14-81) between the service and    *)
(* the avatar.                                                             *)
(***************************************************************************)
DefaultSpeakMs == 2000              \* LiveInterface.tsx:77  speak(2000)

Inputs == {"hi", " "}               \* texts typed into the input box

\* The characters of a text of the input box.
Chars(text) ==
    CASE text = "hi" -> <<"h", "i">>
      [] text = " " -> <<" ">>
      [] OTHER -> <<>>

\* LiveInterface.tsx:40-41  the subscriptions of the mounted interface
InterfaceListeners ==
    [e \in EventNames |->
        IF e = "connection" THEN {<<"handleConnection", 0>>}
        ELSE IF e = "speaking" THEN {<<"handleSpeaking", 0>>}
        ELSE {}]

\* The events of types/index.ts:12-16 as the remote agent sends them: the
\* second field of a frame is the duration.
AgentFrames ==
    {JSONstringify("speaking", duration) : duration \in SpeakDurations}
    \cup {JSONstringify("idle", 0)}

\* The frames of the service's own protocol the mounted interface is sent.
ProtocolFrames == {raw \in InboundFrames : Len(raw) < 4 \/ raw[3] = "c1"}

\* String.prototype.trim on the characters of a text of letters and blanks
RECURSIVE trimStart(_)
trimStart(text) == IF Len(text) > 0 /\ text[1] = " " THEN trimStart(Tail(text)) ELSE text

RECURSIVE trimEnd(_)
trimEnd(text) ==
    IF Len(text) > 0 /\ text[Len(text)] = " "
    THEN trimEnd(SubSeq(text, 1, Len(text) - 1)) ELSE text

trim(text) == trimEnd(trimStart(text))

\* Mutant: only the empty text counts as blank.
BlankWhenEmpty(text) == text = ""

\* LiveInterface.tsx:59  !inputMessage.trim()
Blank(text) == Len(trim(Chars(text))) = 0

\* LiveInterface.tsx:194  onChange
SetInputMessage(text) ==
    /\ inputMessage' = text
    /\ UNCHANGED <<awaiting, avatars, connectionStatus, statusTimers, serviceVars, avatarVars>>

\* LiveInterface.tsx:58-67  handleSendMessage up to its await
HandleSendMessage ==
    IF Blank(inputMessage)
    THEN UNCHANGED vars
    ELSE /\ SendMessageInService(inputMessage)
         /\ awaiting' = awaiting \cup {NextRequest}
         /\ inputMessage' = ""
         /\ UNCHANGED <<avatars, connectionStatus, statusTimers, avatarVars>>

\* LiveInterface.tsx:67-80  handleSendMessage from its await on, once the
\* promise of call r is settled.  A rejection ends the handler at the await.
AfterAwait(r) ==
    /\ r \in awaiting
    /\ requests[r].state = "resolved"
    /\ awaiting' = awaiting \ {r}
    /\ IF requests[r].result.kind = "value"
       THEN Speak(DefaultSpeakMs)
       ELSE UNCHANGED avatarVars
    /\ UNCHANGED <<inputMessage, avatars, connectionStatus, statusTimers, serviceVars>>

\* LiveInterface.tsx:34-38  handleSpeaking: the durations speak is called
\* with by the listeners that the emit() of the handler running now calls
ListenerCalls ==
    IF /\ Len(emitted') > 0
       /\ emitted'[1].event = "speaking"
       /\ <<"handleSpeaking", 0>> \in emitted'[1].to
       /\ emitted'[1].data # 0
    THEN <<emitted'[1].data>>
    ELSE <<>>

\* riko.ts:133, 138, 560  the global trigger is triggerMouthMovement, which
\* takes its argument as a duration in ms: 0.5, 0.8 or 0.  Frames and calls
\* read whole milliseconds, for which now > t + 0.5 exactly if now > t.
HookDurations == [k \in DOMAIN hookCalls' |-> hookCalls'[k] \div 10]

\* The calls that the handler of the service running now makes on the
\* avatar; no handler makes more than one.
ComponentsRun ==
    /\ IF Len(ListenerCalls \o HookDurations) = 0
       THEN UNCHANGED avatarVars
       ELSE Speak((ListenerCalls \o HookDurations)[Len(ListenerCalls \o HookDurations)])
    /\ UNCHANGED interfaceVars

\* riko.ts:27-34, 64-76  ws.onmessage with the interface and its avatar mounted
WsMessageMounted(s, raw) == WsMessageInService(s, raw) /\ ComponentsRun

\* riko.ts:136-140  the delayed reset with the avatar mounted
MouthTimerFiresMounted(i) == MouthTimerFiresInService(i) /\ ComponentsRun

(***************************************************************************)
(* The service, the mounted live interface and its classified avatar,      *)
(* between two frames.                                                     *)
(***************************************************************************)
InitBridge ==
    /\ ConstructedWith(InterfaceListeners, TRUE)
    /\ ws = 1
    /\ requests = [r \in 1..MaxRequests |-> UnusedRequest]
    /\ counting = FALSE
    /\ \E sc \in AvatarScenes : Classified(sc)
    /\ framePeriod \in SlowPeriods
    /\ inputMessage = ""
    /\ awaiting = {}
    /\ StatusUnset
    /\ avatars = {1}

NextBridge ==
    \/ \E s \in Slots : WsOpen(s)
    \/ \E s \in Slots, raw \in ProtocolFrames : WsMessageMounted(s, raw)
    \/ \E s \in Slots, raw \in AgentFrames : WsMessageMounted(s, raw)
    \/ \E text \in Inputs : SetInputMessage(text)
    \/ HandleSendMessage
    \/ \E r \in ReqIds : AfterAwait(r)
    \/ \E r \in ReqIds : RequestTimeout(r)
    \/ \E r \in ReqIds, answer \in HttpAnswers : HttpAnswer(r, answer)
    \/ \E i \in 1..MaxMouthTimers : MouthTimerFiresMounted(i)
    \/ Tick

SpecBridge == InitBridge /\ [][NextBridge]_vars

(***************************************************************************)
(* The mounted interface sending messages over a channel that opens,       *)
(* answers, closes and is set up again, while the frames of the clock      *)
(* animate the avatar.                                                     *)
(***************************************************************************)
TextFrames == {raw \in ProtocolFrames : JSONparses(raw) /\ JSONfirst(raw) = "text_response"}

NextNetwork ==
    \/ \E s \in Slots : WsOpen(s)
    \/ \E s \in Slots, raw \in TextFrames : WsMessageMounted(s, raw)
    \/ \E s \in Slots, withError \in BOOLEAN : WsClose(s, withError)
    \/ \E i \in 1..MaxReconnectTimers, constructed \in BOOLEAN :
          ReconnectTimerFires(i, constructed)
    \/ \E text \in Inputs : SetInputMessage(text)
    \/ HandleSendMessage
    \/ \E r \in ReqIds : AfterAwait(r)
    \/ \E r \in ReqIds : RequestTimeout(r)
    \/ \E i \in 1..MaxMouthTimers : MouthTimerFiresMounted(i)
    \/ Tick
    \/ \E sine \in Sines : UseFrame(framePeriod, sine)

InitNetwork ==
    /\ ConstructedWith(InterfaceListeners, TRUE)
    /\ ws = 1
    /\ requests = [r \in 1..MaxRequests |-> UnusedRequest]
    /\ counting = FALSE
    /\ \E sc \in AvatarScenes : Classified(sc)
    /\ framePeriod \in SpeechPeriods
    /\ inputMessage = ""
    /\ awaiting = {}
    /\ StatusUnset
    /\ avatars = {1}

SpecNetwork == InitNetwork /\ [][NextNetwork]_vars

(***************************************************************************)
(* The service with the first version of the avatar registered as the      *)
(* global trigger, between two frames, with room for two reset timers and  *)
(* with inbound messages at any half second.                               *)
(***************************************************************************)
Waits == {500}       \* steps of time, in ms

\* riko.ts:131-140, 320-326  the call the handler running now makes on the
\* global trigger, whose argument is an intensity (here in tenths)
FirstComponentsRun ==
    /\ IF Len(hookCalls') = 0
       THEN UNCHANGED avatarVars
       ELSE SetTargetIntensity(hookCalls'[Len(hookCalls')] * (Unit \div 10))
    /\ UNCHANGED interfaceVars

InitOverlap ==
    /\ ConstructedWith([e \in EventNames |-> {}], TRUE)
    /\ ws = 1
    /\ requests = [r \in 1..(MaxRequests + 1) |-> UnusedRequest]
    /\ counting = FALSE
    /\ \E sc \in AvatarScenes : FirstClassified(sc)
    /\ framePeriod \in SlowPeriods
    /\ inputMessage = ""
    /\ awaiting = {}
    /\ StatusUnset
    /\ avatars = {1}

NextOverlap ==
    \/ \E s \in Slots : WsOpen(s)
    \/ \E s \in Slots, raw \in ProtocolFrames : WsMessageInService(s, raw) /\ FirstComponentsRun
    \/ \E i \in 1..(MaxMouthTimers + 1) : MouthTimerFiresInService(i) /\ FirstComponentsRun
    \/ \E ms \in Waits : Elapse(ms)

SpecOverlap == InitOverlap /\ [][NextOverlap]_vars

(***************************************************************************)
(* The connection status of the live interface (LiveInterface.tsx:17-56)   *)
(* beside the service, which is constructed when its module is loaded      *)
(* (riko.ts:173), before any component mounts.  The clock of the timers of *)
(* the service is the clock of the timer of the mount effect.              *)
(***************************************************************************)
StartupDelay == 2000     \* LiveInterface.tsx:46, in ms
StatusWaits == {1000}    \* steps of time, in ms

\* LiveInterface.tsx:40  the mount effect has subscribed handleConnection
InterfaceMounted == <<"handleConnection", 0>> \in listeners["connection"]

\* LiveInterface.tsx:29-31  handleConnection, called by the emit() of the
\* handler running now
HandleConnection ==
    /\ connectionStatus' =
          IF /\ Len(emitted') > 0
             /\ emitted'[1].event = "connection"
             /\ <<"handleConnection", 0>> \in emitted'[1].to
          THEN IF emitted'[1].data = "connected" THEN "connected" ELSE "disconnected"
          ELSE connectionStatus
    /\ UNCHANGED <<inputMessage, awaiting, avatars, statusTimers, avatarVars>>

\* LiveInterface.tsx:17, 22-46  the first render and the mount effect
MountInterface ==
    /\ ~InterfaceMounted
    /\ connectionStatus' = "connecting"
    /\ listeners' = [e \in EventNames |-> listeners[e] \cup InterfaceListeners[e]]
    /\ statusTimers' = Append(statusTimers, StartupDelay)
    /\ emitted' = <<>>
    /\ resolvedNow' = {}
    /\ hookCalls' = <<>>
    /\ answered' = <<>>
    /\ received' = <<>>
    /\ UNCHANGED <<sockets, ws, reconnectAttempts, reconnectTimers, requests, wsOut,
                   httpOut, mouthTimers, hook, closesSinceOpen, totalReconnects,
                   exhausted, counting>>
    /\ UNCHANGED <<inputMessage, awaiting, avatars, avatarVars>>

\* LiveInterface.tsx:44-46  the callback of the timer of the mount effect
StatusTimerFires(i) ==
    /\ i \in DOMAIN statusTimers
    /\ statusTimers[i] = 0
    /\ statusTimers' = [j \in 1..(Len(statusTimers) - 1) |->
                           IF j < i THEN statusTimers[j] ELSE statusTimers[j + 1]]
    /\ connectionStatus' = "disconnected"
    /\ emitted' = <<>>
    /\ resolvedNow' = {}
    /\ hookCalls' = <<>>
    /\ answered' = <<>>
    /\ received' = <<>>
    /\ UNCHANGED <<sockets, ws, listeners, reconnectAttempts, reconnectTimers, requests,
                   wsOut, httpOut, mouthTimers, hook, closesSinceOpen, totalReconnects,
                   exhausted, counting>>
    /\ UNCHANGED <<inputMessage, awaiting, avatars, avatarVars>>

\* ms milliseconds pass for the reconnect timers and the timer of the mount
\* effect, no more than the time until the next of them is due.  No message
\* is sent or received here, so no other timer is pending.
StatusElapse(ms) ==
    /\ Len(reconnectTimers) + Len(statusTimers) > 0
    /\ mouthTimers = <<>>
    /\ \A r \in ReqIds : requests[r].timer < 0
    /\ \A i \in DOMAIN reconnectTimers : reconnectTimers[i].remaining >= ms
    /\ \A i \in DOMAIN statusTimers : statusTimers[i] >= ms
    /\ reconnectTimers' = [i \in DOMAIN reconnectTimers |->
                              [reconnectTimers[i] EXCEPT !.remaining = @ - ms]]
    /\ statusTimers' = [i \in DOMAIN statusTimers |-> statusTimers[i] - ms]
    /\ emitted' = <<>>
    /\ resolvedNow' = {}
    /\ hookCalls' = <<>>
    /\ answered' = <<>>
    /\ received' = <<>>
    /\ UNCHANGED <<sockets, ws, listeners, reconnectAttempts, requests, wsOut, httpOut,
                   mouthTimers, hook, closesSinceOpen, totalReconnects, exhausted,
                   counting>>
    /\ UNCHANGED <<inputMessage, awaiting, avatars, connectionStatus, avatarVars>>

NextStatus ==
    \/ MountInterface
    \/ \E s \in Slots : WsOpenInService(s) /\ HandleConnection
    \/ \E s \in Slots, withError \in BOOLEAN : WsCloseInService(s, withError) /\ HandleConnection
    \/ \E i \in 1..MaxReconnectTimers : ReconnectTimerFires(i, TRUE)
    \/ \E i \in DOMAIN statusTimers : StatusTimerFires(i)
    \/ \E ms \in StatusWaits : StatusElapse(ms)

SpecStatus == Init /\ [][NextStatus]_vars

(***************************************************************************)
(* riko.ts:558-565  the registration effect of each of several Avatar3D    *)
(* instances, and its cleanup, with the service's handlers that call the   *)
(* global trigger.                                                         *)
(***************************************************************************)
RegisterTrigger(i) ==
    /\ i \notin avatars
    /\ avatars' = avatars \cup {i}
    /\ hook' = TRUE
    /\ emitted' = <<>>
    /\ resolvedNow' = {}
    /\ hookCalls' = <<>>
    /\ answered' = <<>>
    /\ received' = <<>>
    /\ UNCHANGED <<sockets, ws, listeners, reconnectAttempts, reconnectTimers, requests,
                   wsOut, httpOut, mouthTimers, closesSinceOpen, totalReconnects,
                   exhausted, counting>>
    /\ UNCHANGED <<inputMessage, awaiting, connectionStatus, statusTimers, avatarVars>>

DeleteTrigger(i) ==
    /\ i \in avatars
    /\ avatars' = avatars \ {i}
    /\ hook' = FALSE
    /\ emitted' = <<>>
    /\ resolvedNow' = {}
    /\ hookCalls' = <<>>
    /\ answered' = <<>>
    /\ received' = <<>>
    /\ UNCHANGED <<sockets, ws, listeners, reconnectAttempts, reconnectTimers, requests,
                   wsOut, httpOut, mouthTimers, closesSinceOpen, totalReconnects,
                   exhausted, counting>>
    /\ UNCHANGED <<inputMessage, awaiting, connectionStatus, statusTimers, avatarVars>>

NextInstances ==
    \/ \E i \in 1..MaxAvatars : RegisterTrigger(i)
    \/ \E i \in 1..MaxAvatars : DeleteTrigger(i)
    \/ \E s \in Slots : WsOpen(s)
    \/ \E s \in Slots, raw \in InboundFrames : WsMessage(s, raw)
    \/ \E i \in 1..MaxMouthTimers : MouthTimerFires(i)
    \/ Tick

SpecInstances == Init /\ [][NextInstances]_vars

(***************************************************************************)
(* Properties.                                                             *)
(***************************************************************************)
WsRequests == {r \in ReqIds : requests[r].path = "ws"}

HttpRequests == {r \in ReqIds : requests[r].path = "http"}

\* Requests take ids in the order of the calls: the k-th frame on the duplex
\* channel belongs to the k-th request that took that path.
WsRequestAt(k) == CHOOSE r \in WsRequests : Cardinality({q \in WsRequests : q <= r}) = k

HttpRequestAt(k) == CHOOSE r \in HttpRequests : Cardinality({q \in HttpRequests : q <= r}) = k

TextEvent == emitted # <<>> /\ emitted[1].event = "text"

\* C1: a sendMessage on the open channel writes exactly one frame
\* {type:'text', content:text}, and an inbound text_response with content c
\* that arrives before the deadline resolves the call with text c, cancels
\* its deadline timer and removes its listener from the 'text' set.
C1_RoundTrip ==
    /\ Len(wsOut) = Cardinality(WsRequests)
    /\ \A k \in DOMAIN wsOut :
          wsOut[k].raw = <<"{", "text", requests[WsRequestAt(k)].text, "}">>
    /\ TextEvent =>
          \A r \in WsRequests :
             /\ requests[r].state = "resolved"
             /\ requests[r].timer = -1
             /\ HandlerOf(r) \notin listeners["text"]
             /\ r \in resolvedNow =>
                   /\ requests[r].result.kind = "value"
                   /\ requests[r].result.text = emitted[1].data

\* C2: a sendMessage made on the open channel is never rejected; while it is
\* pending its deadline timer is armed, whatever close, reconnection or
\* disconnect() happened since; it resolves with null only at the deadline,
\* 10 s after the call; and every pending request eventually resolves.
C2_DeadlineArmed ==
    \A r \in WsRequests :
       /\ requests[r].result.kind # "rejected"
       /\ requests[r].state = "pending" =>
             /\ requests[r].timer \in 0..10000
             /\ requests[r].age = 10000 - requests[r].timer
       /\ requests[r].result.kind = "null" =>
             /\ requests[r].state = "resolved"
             /\ requests[r].age = 10000

C2_TimeoutResolvesNull ==
    /\ []C2_DeadlineArmed
    /\ \A r \in 1..MaxRequests :
          (requests[r].path = "ws" /\ requests[r].state = "pending")
             ~> (requests[r].state = "resolved")

C2_Witness ==
    \E r \in WsRequests :
       /\ resolvedNow = {r}
       /\ requests[r].result = NullResult
       /\ requests[r].age = 10000
       /\ HandlerOf(r) \notin listeners["text"]
       /\ ws = 0

\* C3: once the deadline timer of a request has run, its listener is no
\* longer in the 'text' set: no listener outlives its request.
C3_ListenerRemovedOnTimeout ==
    \A r \in ReqIds : HandlerOf(r) \in listeners["text"] => requests[r].state = "pending"

\* C4: one inbound text_response resolves at most one pending sendMessage.
C4_OneEventOneRequest == TextEvent => Cardinality(resolvedNow) <= 1

\* C5: a sendMessage made while the duplex channel is not open writes
\* nothing to the channel and registers no 'text' listener; it issues
\* exactly one POST /chat with body {message:text}, and a success answer
\* resolves the call with the parsed body unchanged.
C5_FallbackPath ==
    /\ \A k \in DOMAIN wsOut : wsOut[k].readyState = "OPEN"
    /\ Len(httpOut) = Cardinality(HttpRequests)
    /\ Len(wsOut) + Len(httpOut) = Cardinality({r \in ReqIds : requests[r].state # "unused"})
    /\ \A k \in DOMAIN httpOut :
          /\ httpOut[k].readyState # "OPEN"
          /\ httpOut[k].message = requests[HttpRequestAt(k)].text
    /\ \A r \in HttpRequests :
          /\ HandlerOf(r) \notin listeners["text"]
          /\ requests[r].timer = -1
          /\ requests[r].state = "resolved" /\ requests[r].result.kind = "value" =>
                requests[r].result.emotion \in Emotions
    /\ answered # <<>> =>
          /\ resolvedNow \subseteq HttpRequests
          /\ Cardinality(resolvedNow) = 1
          /\ (answered[1].transport = "ok" /\ answered[1].ok /\ Len(answered[1].body) = 4) =>
                \A r \in resolvedNow :
                   requests[r].result = [kind |-> "value", text |-> answered[1].body[2],
                                         emotion |-> answered[1].body[3]]

C5_Witness ==
    /\ answered # <<>>
    /\ \E r \in resolvedNow :
          /\ requests[r].result = [kind |-> "value", text |-> "c2", emotion |-> "happy"]
          /\ httpOut[1].readyState = "CONNECTING"
          /\ HttpRequestAt(1) = r

\* C6: a failed fallback exchange (transport error, non-success status,
\* unparsable body) resolves the call with null, never rejects it, and
\* leaves the sockets, this.ws, the reconnect counter, the reconnection
\* timers and the listener sets as they were.
C6_FallbackFailure ==
    [][answered' # <<>> =>
          /\ resolvedNow' # {}
          /\ \A r \in resolvedNow' :
                /\ requests'[r].result.kind # "rejected"
                /\ (answered'[1].transport # "ok" \/ ~answered'[1].ok
                      \/ Len(answered'[1].body) # 4) =>
                      requests'[r].result.kind = "null"
          /\ sockets' = sockets
          /\ ws' = ws
          /\ reconnectAttempts' = reconnectAttempts
          /\ reconnectTimers' = reconnectTimers
          /\ listeners' = listeners]_vars

C6_Witness ==
    /\ answered # <<>>
    /\ answered[1].transport = "ok"
    /\ ~answered[1].ok
    /\ \E r \in resolvedNow : requests[r].result = NullResult /\ requests[r].path = "http"

\* C7: the k-th reconnection of a run of consecutive closes is scheduled
\* with the counter already at k and after min(1000 * 2^k, 30000) ms:
\* 2000, 4000, 8000, 16000, 30000 ms for k = 1..5.
BackoffTable == <<2000, 4000, 8000, 16000, 30000>>

C7_Backoff ==
    \A i \in DOMAIN reconnectTimers :
       /\ reconnectTimers[i].run \in 1..5
       /\ reconnectTimers[i].attempt = reconnectTimers[i].run
       /\ reconnectTimers[i].delay = BackoffTable[reconnectTimers[i].run]
       /\ reconnectTimers[i].delay =
             (IF 1000 * 2^(reconnectTimers[i].run) < 30000
              THEN 1000 * 2^(reconnectTimers[i].run) ELSE 30000)
       /\ reconnectTimers[i].remaining \in 0..reconnectTimers[i].delay

C7_Witness ==
    \E i \in DOMAIN reconnectTimers :
       reconnectTimers[i].run = 5 /\ reconnectTimers[i].delay = 30000

\* C8: once a close has found the attempt counter at 5, no reconnection
\* timer is pending, no socket is connecting or open and the channel is
\* not open, in every later state of the run.
C8_ExhaustedPermanent ==
    exhausted =>
       /\ reconnectTimers = <<>>
       /\ \A s \in Slots : sockets[s] \notin {"CONNECTING", "OPEN", "CLOSING"}
       /\ ~(ws # 0 /\ sockets[ws] = "OPEN")
       /\ reconnectAttempts = 5

C8_Witness ==
    /\ exhausted
    /\ closesSinceOpen = 6
    /\ \E k \in DOMAIN httpOut : httpOut[k].readyState = "CLOSED"

\* C9 as stated: at most 5 reconnections are scheduled over the life of the
\* service.
C9_AtMostFiveEver == totalReconnects <= 5

\* C9 as amended: at most 5 reconnections are scheduled in a run of
\* consecutive closes with no successful open in between; the counter is
\* the number of closes of the run, capped at 5.
C9_AtMostFivePerRun ==
    /\ \A i \in DOMAIN reconnectTimers : reconnectTimers[i].run <= 5
    /\ reconnectAttempts = (IF closesSinceOpen < 5 THEN closesSinceOpen ELSE 5)
    /\ closesSinceOpen > 5 => reconnectTimers = <<>>

C9_Witness ==
    /\ totalReconnects = 6
    /\ \E i \in DOMAIN reconnectTimers : reconnectTimers[i].run = 2

\* C10: every successful open leaves the channel open and the attempt
\* counter at 0 and emits exactly one 'connection' event, status
\* 'connected', to the listeners registered at that moment; the first close
\* after it schedules the reconnection after the first delay, 2000 ms.
C10_OpenResets ==
    [][/\ (\E s \in Slots : sockets[s] = "CONNECTING" /\ sockets'[s] = "OPEN") =>
             /\ reconnectAttempts' = 0
             /\ emitted' = <<[event |-> "connection", data |-> "connected",
                              to |-> listeners["connection"]]>>
             /\ ws' # 0
             /\ sockets'[ws'] = "OPEN"
       /\ (closesSinceOpen = 0 /\ closesSinceOpen' = 1) =>
             /\ Len(reconnectTimers') = Len(reconnectTimers) + 1
             /\ reconnectTimers'[Len(reconnectTimers')].delay = 2000
             /\ reconnectAttempts' = 1]_vars

C10_Witness ==
    /\ emitted = <<[event |-> "connection", data |-> "connected",
                    to |-> {<<"handleConnection", 0>>}]>>
    /\ reconnectAttempts = 0
    /\ \E k \in DOMAIN httpOut : httpOut[k].readyState = "CLOSED"

\* C11 as stated: every close of a socket, with or without an error event
\* before it, and every failure to construct the socket emits one
\* 'connection' event with status 'disconnected' and, while the attempt
\* counter is below the cap, schedules a reconnection.
Disconnected ==
    [event |-> "connection", data |-> "disconnected", to |-> listeners["connection"]]

C11_CloseOrFailureReconnects ==
    [][/\ (\E s \in Slots : sockets[s] \in {"CONNECTING", "OPEN", "CLOSING"}
                            /\ sockets'[s] \in {"CLOSED", "NONE"}) =>
             /\ emitted' = <<Disconnected>>
             /\ reconnectAttempts < 5 =>
                   /\ Len(reconnectTimers') = Len(reconnectTimers) + 1
                   /\ reconnectAttempts' = reconnectAttempts + 1
       /\ (Len(reconnectTimers') < Len(reconnectTimers) /\ sockets' = sockets) =>
             /\ emitted' = <<Disconnected>>
             /\ reconnectAttempts < 5 => reconnectAttempts' = reconnectAttempts + 1]_vars

\* C12: an inbound frame that cannot be parsed, or that parses to a type
\* other than text_response, audio_response and emotion, emits no event,
\* settles no sendMessage, calls no mouth trigger and arms no mouth timer,
\* and leaves the listeners, the sockets, this.ws, the attempt counter and
\* the reconnection timers as they were.
Propagated(raw) ==
    /\ Len(raw) = 4
    /\ raw[1] = "{"
    /\ raw[4] = "}"
    /\ raw[2] \in {"text_response", "audio_response", "emotion"}

C12_MalformedDropped ==
    [][(received' # <<>> /\ ~Propagated(received')) =>
          /\ emitted' = <<>>
          /\ resolvedNow' = {}
          /\ hookCalls' = <<>>
          /\ mouthTimers' = mouthTimers
          /\ requests' = requests
          /\ listeners' = listeners
          /\ sockets' = sockets
          /\ ws' = ws
          /\ reconnectAttempts' = reconnectAttempts
          /\ reconnectTimers' = reconnectTimers]_vars

C12_Witness ==
    /\ received = <<"{", "text_response", "c1">>
    /\ hook
    /\ \E r \in WsRequests :
          /\ requests[r].state = "pending"
          /\ HandlerOf(r) \in listeners["text"]

EyeRest(k) == originalEyeScales[k]

EyeScale(k) == meshScale[eyeMeshes[k]]

\* C13 as stated: after every frame taken during a blink the Y-scale of
\* every eye mesh lies between a tenth of its rest Y-scale and its rest
\* Y-scale, and after the frame that ends the blink the whole scale vector
\* of every eye mesh is its rest scale.
C13_BlinkScaleBounds ==
    [][/\ (now' > now /\ blinkState'.isBlinking) =>
             \A k \in DOMAIN eyeMeshes :
                /\ EyeScale(k)'.y >= RoundDiv(EyeRest(k).y, 10)
                /\ EyeScale(k)'.y <= EyeRest(k).y
       /\ (blinkState.isBlinking /\ ~blinkState'.isBlinking) =>
             \A k \in DOMAIN eyeMeshes : EyeScale(k)' = EyeRest(k)]_vars

\* C14 as stated: isBlinking holds only while the latest frame time lies
\* in [blinkStartTime, blinkStartTime + blinkDuration], and while it does
\* not hold every eye mesh has its rest scale.
C14_BlinkStateInvariant ==
    /\ blinkState.isBlinking =>
          /\ blinkState.blinkStartTime <= now
          /\ now <= blinkState.blinkStartTime + 150
    /\ ~blinkState.isBlinking =>
          \A k \in DOMAIN eyeMeshes : EyeScale(k) = EyeRest(k)

\* C15: a blink starts exactly on a frame that finds isBlinking false and
\* more than 4500 ms gone since lastBlinkTime, and sets lastBlinkTime and
\* blinkStartTime to that frame's time; no blink starts 4500 ms or less
\* after the previous start or after mount; under a fixed frame clock of
\* period p the first blink starts at (4500 \div p + 1) * p and consecutive
\* starts are max(4500 \div p + 1, 2) * p apart, whatever the blink lasts.
BlinkStartBefore(i) == IF i = 1 THEN 0 ELSE blinkStarts[i - 1]

FramesToBlink(p) == 4500 \div p + 1

C15_BlinkPeriodicity ==
    [][/\ (~blinkState.isBlinking /\ now' - blinkState.lastBlinkTime > 4500)
             <=> (Len(blinkStarts') = Len(blinkStarts) + 1)
       /\ Len(blinkStarts') = Len(blinkStarts) + 1 =>
             /\ blinkStarts'[Len(blinkStarts')] = now'
             /\ blinkState'.isBlinking
             /\ blinkState'.blinkStartTime = now'
             /\ blinkState'.lastBlinkTime = now'
       /\ Len(blinkStarts') = Len(blinkStarts) => blinkState'.lastBlinkTime = blinkState.lastBlinkTime
       /\ \A i \in DOMAIN blinkStarts' :
             /\ blinkStarts'[i] - BlinkStartBefore(i)' > 4500
             /\ framePeriod # 0 =>
                   blinkStarts'[i] - BlinkStartBefore(i)' =
                      (IF i > 1 /\ FramesToBlink(framePeriod) < 2 THEN 2
                       ELSE FramesToBlink(framePeriod)) * framePeriod]_vars

C15_Witness ==
    /\ framePeriod = 16
    /\ blinkStarts = <<4512, 9024>>
    /\ ~blinkState.isBlinking
    /\ blinkState.lastBlinkTime = 9024

Abs(x) == IF x < 0 THEN -x ELSE x

\* C16: every frame moves currentIntensity toward the target of that frame
\* by a tenth of the gap (to the nearest thousandth), so the distance to
\* the target shrinks by the factor 0.9, never grows and never changes
\* sign; no step other than a frame changes currentIntensity, and a call
\* of the trigger changes the target only.
C16_MouthConvergence ==
    [][/\ now' = now => mouthAnim'.currentIntensity = mouthAnim.currentIntensity
       /\ now' > now =>
             /\ Abs(10 * (mouthAnim'.currentIntensity - mouthAnim.currentIntensity)
                    - (mouthAnim'.targetIntensity - mouthAnim.currentIntensity)) <= 5
             /\ Abs(10 * Abs(mouthAnim'.currentIntensity - mouthAnim'.targetIntensity)
                    - 9 * Abs(mouthAnim.currentIntensity - mouthAnim'.targetIntensity)) <= 5
             /\ Abs(mouthAnim'.currentIntensity - mouthAnim'.targetIntensity)
                   <= Abs(mouthAnim.currentIntensity - mouthAnim'.targetIntensity)
             /\ (mouthAnim'.currentIntensity - mouthAnim'.targetIntensity)
                   * (mouthAnim.currentIntensity - mouthAnim'.targetIntensity) >= 0]_vars

C16_Witness ==
    /\ mouthAnim.isSpeaking
    /\ mouthAnim.targetIntensity = 800
    /\ mouthAnim.currentIntensity = 152
    /\ speaks = 1

\* C17: after a single call of the trigger, isSpeaking is true and the
\* target is 0.8 after every frame taken at or before the deadline
\* now + duration, the first frame taken after the deadline sets isSpeaking
\* to false and the target to 0, and isSpeaking never becomes false
\* otherwise.
C17_SpeakDeadline ==
    [][/\ (speaks' = speaks + 1 /\ ~mouthAnim.isSpeaking) =>
             /\ mouthAnim'.isSpeaking
             /\ mouthAnim'.targetIntensity = 800
             /\ mouthAnim'.speakEndTime - now \in {150, 2000}
       /\ (mouthAnim.isSpeaking /\ episode.calls = 1 /\ speaks' = speaks) =>
             IF now' <= mouthAnim.speakEndTime
             THEN /\ mouthAnim'.isSpeaking
                  /\ mouthAnim'.targetIntensity = 800
                  /\ mouthAnim'.speakEndTime = mouthAnim.speakEndTime
             ELSE /\ ~mouthAnim'.isSpeaking
                  /\ mouthAnim'.targetIntensity = 0
       /\ (mouthAnim.isSpeaking /\ ~mouthAnim'.isSpeaking) =>
             now' > mouthAnim.speakEndTime]_vars

C17_Witness ==
    /\ episode = [calls |-> 1, silences |-> 1, replaced |-> -1]
    /\ mouthAnim.speakEndTime = 150
    /\ now = 300
    /\ ~mouthAnim.isSpeaking
    /\ mouthAnim.targetIntensity = 0

\* C18: a call of the trigger made while an earlier one is in flight
\* replaces the deadline by now + duration, also when that is earlier than
\* the deadline it replaces, and leaves the target at 0.8; the episode ends
\* exactly once, on the first frame taken after the latest deadline, and
\* nothing stays queued: once it has ended, isSpeaking and the target stay
\* false and 0 until the next call.
C18_LastWriterWins ==
    [][/\ (speaks' = speaks + 1 /\ mouthAnim.isSpeaking) =>
             /\ mouthAnim'.isSpeaking
             /\ mouthAnim'.targetIntensity = 800
             /\ mouthAnim'.speakEndTime - now \in {150, 2000}
             /\ episode'.replaced = mouthAnim.speakEndTime
             /\ episode'.silences = 0
       /\ (mouthAnim.isSpeaking /\ episode.calls > 1 /\ speaks' = speaks) =>
             /\ mouthAnim'.speakEndTime = mouthAnim.speakEndTime
             /\ mouthAnim'.isSpeaking <=> now' <= mouthAnim.speakEndTime
       /\ episode'.calls > 0 =>
             /\ episode'.silences = (IF mouthAnim'.isSpeaking THEN 0 ELSE 1)
             /\ mouthAnim'.targetIntensity = (IF mouthAnim'.isSpeaking THEN 800 ELSE 0)]_vars

C18_Witness ==
    /\ episode.calls = 2
    /\ episode.silences = 1
    /\ episode.replaced = 2000
    /\ mouthAnim.speakEndTime = 300
    /\ now = 450
    /\ ~mouthAnim.isSpeaking

\* C19: after every frame the mouth mesh has its rest scale if
\* currentIntensity is 0.01 or less, and otherwise Y-scale
\* restY * (1 + 0.3 * currentIntensity) and X-scale within
\* restX * (1 +/- 0.05 * currentIntensity), each to the nearest thousandth;
\* once the speaking has ended every frame lowers currentIntensity until it
\* is 0.01 or less, and it then stays there, so the mouth mesh returns to
\* its rest scale and keeps it.
MouthRest == originalMouthScale[1]

C19_MouthRendering ==
    [][(now' > now /\ mouthMesh # 0) =>
          /\ IF mouthAnim'.currentIntensity <= 10
             THEN meshScale'[mouthMesh] = MouthRest
             ELSE /\ Abs(10000 * meshScale'[mouthMesh].y
                         - MouthRest.y * (10000 + 3 * mouthAnim'.currentIntensity)) <= 10000
                  /\ 20000 * Abs(meshScale'[mouthMesh].x - MouthRest.x)
                        <= MouthRest.x * mouthAnim'.currentIntensity + 20000
                  /\ meshScale'[mouthMesh].y > MouthRest.y
          /\ ~mouthAnim'.isSpeaking =>
                IF mouthAnim.currentIntensity > 10
                THEN mouthAnim'.currentIntensity < mouthAnim.currentIntensity
                ELSE mouthAnim'.currentIntensity <= 10]_vars

C19_Witness ==
    /\ mouthMesh # 0
    /\ episode.calls = 1
    /\ episode.silences = 1
    /\ mouthAnim.currentIntensity \in 1..10
    /\ meshScale[mouthMesh] = MouthRest

\* C20 as stated: after classification the mouth mesh is the first mesh in
\* traversal order whose lower-cased name contains 'mouth', 'lip' or 'jaw',
\* and the captured mouth rest scale is the scale of that mesh.
MouthNamed == {i \in DOMAIN scene : IsMouthName(scene[i].name)}

C20_FirstMouthWins ==
    (loaded /\ MouthNamed # {}) =>
       /\ mouthMesh \in MouthNamed
       /\ \A i \in MouthNamed : mouthMesh <= i
       /\ originalMouthScale = <<scene[mouthMesh].scale>>

(***************************************************************************)
(* C21  The heuristic traversal contributes to the eye table only when no  *)
(* mesh has an eye name, and then at most 10 meshes, each of them small    *)
(* and near the face; when a mesh has an eye name the table holds exactly  *)
(* the meshes with an eye name, once each; and the table of rest scales    *)
(* has the length of the eye table, entry k being the scale the k-th eye   *)
(* mesh had when it was classified.                                        *)
(***************************************************************************)
NamedEyes == {i \in DOMAIN scene : IsEyeName(scene[i].name)}

C21_EyeTable ==
    loaded =>
        /\ Len(originalEyeScales) = Len(eyeMeshes)
        /\ \A k \in DOMAIN eyeMeshes :
              /\ eyeMeshes[k] \in DOMAIN scene
              /\ originalEyeScales[k] = scene[eyeMeshes[k]].scale
        /\ NamedEyes # {} =>
              /\ {eyeMeshes[k] : k \in DOMAIN eyeMeshes} = NamedEyes
              /\ Len(eyeMeshes) = Cardinality(NamedEyes)
        /\ NamedEyes = {} =>
              /\ Len(eyeMeshes) <= 10
              /\ \A k \in DOMAIN eyeMeshes :
                    scene[eyeMeshes[k]].small /\ scene[eyeMeshes[k]].nearFace

\* The heuristic ran on a model with twelve candidates and took ten of them.
C21_Witness ==
    /\ loaded
    /\ NamedEyes = {}
    /\ Cardinality({i \in DOMAIN scene : scene[i].small /\ scene[i].nearFace}) > 10
    /\ Len(eyeMeshes) = 10

(***************************************************************************)
(* C22 as stated: once a model has been loaded in place of another one,    *)
(* every eye mesh and the mouth mesh are meshes of the clone the group     *)
(* holds, the captured rest scales are the scales those meshes were        *)
(* loaded with, and no step changes the scale of a mesh of an earlier      *)
(* clone.                                                                  *)
(***************************************************************************)
C22_ReloadReplacesAll ==
    [][/\ \A k \in DOMAIN eyeMeshes' :
             /\ eyeMeshes'[k] \in group'
             /\ originalEyeScales'[k] = scene'[eyeMeshes'[k]].scale
       /\ mouthMesh' # 0 =>
             /\ mouthMesh' \in group'
             /\ originalMouthScale' = <<scene'[mouthMesh'].scale>>
       /\ \A m \in DOMAIN meshScale : m \notin group' => meshScale'[m] = meshScale[m]]_vars

(***************************************************************************)
(* C23 as stated: when the channel delivers an event of type 'speaking'    *)
(* with duration d while the live interface is subscribed, speak(d) is     *)
(* called on the avatar: the mouth is speaking towards the target 0.8      *)
(* with the deadline now + d.                                              *)
(***************************************************************************)
Delivered(raw) == received' # received /\ received' = raw

C23_SpeakingEventSpeaks ==
    [][\A d \in SpeakDurations :
          (/\ Delivered(JSONstringify("speaking", d))
           /\ <<"handleSpeaking", 0>> \in listeners["speaking"])
          => /\ mouthAnim'.isSpeaking
             /\ mouthAnim'.speakEndTime = now' + d
             /\ mouthAnim'.targetIntensity = SpeakTarget]_vars

(***************************************************************************)
(* C24 as stated: when the channel delivers an event of type 'idle' while  *)
(* the mouth is speaking, the target intensity is 0 when the handler       *)
(* returns, whatever the deadline.                                         *)
(***************************************************************************)
C24_IdleEventSilences ==
    [][(Delivered(JSONstringify("idle", 0)) /\ mouthAnim.isSpeaking)
          => mouthAnim'.targetIntensity = 0]_vars

(***************************************************************************)
(* C25  A step that takes a text out of the input box starts exactly one   *)
(* sendMessage call, with that text, and writes one message to the channel *)
(* or to the fallback endpoint.  While the input box holds nothing but     *)
(* blanks no step starts a sendMessage call.  When handleSendMessage       *)
(* continues after a call that resolved with a response, speak is called   *)
(* once, with 2000 ms; when it continues after a call that resolved with   *)
(* null, the mouth is left as it is; and every other call of the trigger   *)
(* is one the service makes through the global trigger.                    *)
(***************************************************************************)
Started == {r \in ReqIds : requests[r].state = "unused" /\ requests'[r].state # "unused"}

Continued == awaiting \ awaiting'

C26_TriggerRegistration ==
    [][/\ hook' \in BOOLEAN
       /\ (avatars' \ avatars # {}) => hook'
       /\ (avatars \ avatars' # {}) => ~hook'
       /\ avatars' = {} => ~hook'
       /\ (avatars = {} /\ avatars' = {}) => hookCalls' = <<>>
       /\ (avatars = {} /\ Len(mouthTimers') < Len(mouthTimers)) =>
             /\ hookCalls' = <<>>
             /\ UNCHANGED <<sockets, ws, listeners, requests>>]_vars

\* triggerMouthAnimation has run for a text_response with no avatar mounted:
\* it called nothing and armed its reset.
C26_Witness ==
    /\ avatars = {}
    /\ ~hook
    /\ Len(received) = 4
    /\ received[2] = "text_response"
    /\ hookCalls = <<>>
    /\ Len(mouthTimers) = 1

(***************************************************************************)
(* C27  The frame advance is never blocked by network activity: whatever   *)
(* the state of the connection and however many requests and reconnection  *)
(* timers are pending, the next frame of the clock can be taken; a frame   *)
(* updates the blink and the mouth once (one smoothing step, at most one   *)
(* blink started); and no send, receive, timeout, reconnect or timer step  *)
(* changes the blink state, currentIntensity or a mesh's scale.            *)
(***************************************************************************)
FrameEnabled ==
    now + framePeriod <= Horizon => ENABLED (\E sine \in Sines : UseFrame(framePeriod, sine))

FrameStep ==
    /\ now' = now + framePeriod
    /\ serviceVars' = serviceVars
    /\ mouthAnim'.currentIntensity =
          Smoothed(mouthAnim.currentIntensity, mouthAnim'.targetIntensity)
    /\ Len(blinkStarts') <= Len(blinkStarts) + 1
    /\ blinkState' # blinkState => (blinkState'.isBlinking # blinkState.isBlinking)

NetworkStep ==
    /\ blinkState' = blinkState
    /\ blinkStarts' = blinkStarts
    /\ mouthAnim'.currentIntensity = mouthAnim.currentIntensity
    /\ meshScale' = meshScale

C27_FrameNeverBlocked ==
    /\ []FrameEnabled
    /\ [][IF now' # now THEN FrameStep ELSE NetworkStep]_vars

\* Frames have gone on to start a blink while the channel is closed, a
\* request is pending and a reconnection timer is armed.
C27_Witness ==
    /\ Len(blinkStarts) > 0
    /\ ReadyState # "OPEN"
    /\ \E r \in ReqIds : requests[r].state = "pending"
    /\ Len(reconnectTimers) > 0

(***************************************************************************)
(* C28  Inbound dispatch: a text_response emits one 'text' event with its  *)
(* content and triggers the mouth animation (0.5), an audio_response emits *)
(* one 'audio' event and triggers the mouth animation (0.8), an emotion    *)
(* emits one 'emotion' event and triggers nothing.  Every trigger arms one *)
(* timer of 2000 ms, no timer is dropped before it is due, and the timer   *)
(* that is due calls the registered trigger with 0.                        *)
(***************************************************************************)
Inbound(type) ==
    /\ received' # received
    /\ Len(received') = 4
    /\ received'[1] = "{"
    /\ received'[4] = "}"
    /\ received'[2] = type

EmitsOne(event) ==
    /\ Len(emitted') = 1
    /\ emitted'[1].event = event
    /\ emitted'[1].data = received'[3]
    /\ emitted'[1].to = listeners[event]

Triggers(intensity) ==
    /\ hookCalls' = IF hook THEN <<intensity>> ELSE <<>>
    /\ Len(mouthTimers') = Len(mouthTimers) + 1
    /\ mouthTimers'[Len(mouthTimers')] = MouthResetMs
    /\ \A i \in DOMAIN mouthTimers : mouthTimers'[i] = mouthTimers[i]

ResetIsDue ==
    /\ received' = <<>>
    /\ emitted' = <<>>
    /\ Len(mouthTimers') = Len(mouthTimers) - 1
    /\ \E i \in DOMAIN mouthTimers :
          /\ mouthTimers[i] = 0
          /\ mouthTimers' = [j \in 1..(Len(mouthTimers) - 1) |->
                                IF j < i THEN mouthTimers[j] ELSE mouthTimers[j + 1]]
    /\ hookCalls' = IF hook THEN <<0>> ELSE <<>>

C28_InboundDispatch ==
    [][/\ Inbound("text_response") => EmitsOne("text") /\ Triggers(5)
       /\ Inbound("audio_response") => EmitsOne("audio") /\ Triggers(8)
       /\ Inbound("emotion") =>
             EmitsOne("emotion") /\ hookCalls' = <<>> /\ mouthTimers' = mouthTimers
       /\ Len(mouthTimers') < Len(mouthTimers) => ResetIsDue
       /\ \A i \in DOMAIN mouthTimers' : mouthTimers'[i] >= 0]_vars

\* The reset of a trigger has just called the registered global trigger
\* with 0, 2000 ms after an inbound message armed it.
C28_Witness ==
    /\ hook
    /\ hookCalls = <<0>>
    /\ mouthTimers = <<>>
    /\ received = <<>>

(***************************************************************************)
(* C29 as stated: a sendMessage that takes the HTTP fallback path has a    *)
(* deadline of 10 s: while it is pending a deadline within 10 s is armed,  *)
(* and it resolves even if the endpoint never answers.                     *)
(***************************************************************************)
HttpPending(r) == requests[r].path = "http" /\ requests[r].state = "pending"

C29_HttpDeadline ==
    /\ [](\A r \in ReqIds : HttpPending(r) => requests[r].timer \in 0..ResponseTimeoutMs)
    /\ \A r \in 1..MaxRequests : HttpPending(r) ~> (requests[r].state = "resolved")

(***************************************************************************)
(* C30  Classification misses degrade silently.  After a classification    *)
(* that found no eye mesh, a frame changes no scale but that of the mouth  *)
(* mesh, which is what the mouth animator alone makes of its rest scale;   *)
(* after one that found no mouth mesh, a frame changes no X or Z scale,    *)
(* no scale of a mesh that is not an eye, and no scale at all outside a    *)
(* blink.  Meanwhile blinks go on starting when they are due, every frame  *)
(* smooths currentIntensity one step, and a call of speak is accepted and  *)
(* sets isSpeaking, the deadline and the target.                           *)
(***************************************************************************)
MouthAlone(m, sine) ==
    IF mouthAnim'.currentIntensity > RenderThreshold
    THEN [originalMouthScale[1] EXCEPT
             !.y = MouthY(originalMouthScale[1].y, mouthAnim'.currentIntensity),
             !.x = MouthX(originalMouthScale[1].x, mouthAnim'.currentIntensity, sine)]
    ELSE originalMouthScale[1]

NoEyeFrame ==
    \A m \in DOMAIN meshScale :
       IF m = mouthMesh
       THEN \E sine \in Sines : meshScale'[m] = MouthAlone(m, sine)
       ELSE meshScale'[m] = meshScale[m]

NoMouthFrame ==
    /\ \A m \in DOMAIN meshScale :
          /\ meshScale'[m].x = meshScale[m].x
          /\ meshScale'[m].z = meshScale[m].z
          /\ (\A k \in DOMAIN eyeMeshes : eyeMeshes[k] # m) => meshScale'[m] = meshScale[m]
    /\ (~blinkState.isBlinking /\ ~blinkState'.isBlinking /\ blinkStarts' = blinkStarts)
          => meshScale' = meshScale

MachinesAdvance ==
    /\ (~blinkState.isBlinking /\ now' - blinkState.lastBlinkTime > blinkInterval)
          => /\ blinkState'.lastBlinkTime = now'
             /\ blinkStarts' = Append(blinkStarts, now')
    /\ mouthAnim'.currentIntensity =
          Smoothed(mouthAnim.currentIntensity, mouthAnim'.targetIntensity)
    /\ (mouthAnim.isSpeaking /\ now' > mouthAnim.speakEndTime)
          => ~mouthAnim'.isSpeaking /\ mouthAnim'.targetIntensity = 0

SpeakAccepted ==
    /\ \A duration \in SpeakDurations : ENABLED TriggerMouthMovement(duration)
    /\ (speaks' = speaks + 1) =>
          /\ mouthAnim'.isSpeaking
          /\ mouthAnim'.targetIntensity = SpeakTarget
          /\ mouthAnim'.speakEndTime - now \in SpeakDurations
          /\ meshScale' = meshScale

C30_MissesDegradeSilently ==
    [][/\ (loaded /\ now' # now /\ eyeMeshes = <<>>) => NoEyeFrame /\ MachinesAdvance
       /\ (loaded /\ now' # now /\ mouthMesh = 0) => NoMouthFrame /\ MachinesAdvance
       /\ (loaded /\ speaks < MaxSpeaks /\ (eyeMeshes = <<>> \/ mouthMesh = 0))
             => SpeakAccepted]_vars

\* An avatar with neither an eye nor a mouth mesh has blinked and, after a
\* call of speak, opened its mouth state, with every mesh at its rest scale.
C30_Witness ==
    /\ loaded
    /\ eyeMeshes = <<>>
    /\ mouthMesh = 0
    /\ Len(blinkStarts) > 0
    /\ mouthAnim.currentIntensity > 0
    /\ meshScale = [i \in DOMAIN scene |-> scene[i].scale]

(***************************************************************************)
(* C31 as stated: after the classification of any model, the heuristic     *)
(* included, no mesh is both in the eye table and the mouth mesh, so that  *)
(* the blink and the mouth animation never write the same mesh's scale.    *)
(***************************************************************************)
C31_OneClassification ==
    loaded => \A k \in DOMAIN eyeMeshes : eyeMeshes[k] # mouthMesh

(***************************************************************************)
(* C32 as stated: after any frames and any calls of the global trigger,    *)
(* with any numeric argument, targetIntensity and currentIntensity lie in  *)
(* [0, 1].                                                                 *)
(***************************************************************************)
C32_IntensityRange ==
    /\ mouthAnim.targetIntensity \in 0..Unit
    /\ mouthAnim.currentIntensity \in 0..Unit

(***************************************************************************)
(* C33 as stated: after disconnect() the service never initiates a new     *)
(* connection.  this.ws is null only if the constructor failed to make a   *)
(* socket, after which no close event can come, or since disconnect() was  *)
(* called with no socket made afterwards; from then on no reconnection     *)
(* timer is scheduled, no socket starts connecting and this.ws stays null. *)
(***************************************************************************)
C33_DisconnectIsFinal ==
    [][ws = 0 =>
          /\ ws' = 0
          /\ Len(reconnectTimers') <= Len(reconnectTimers)
          /\ \A s \in Slots : sockets'[s] = "CONNECTING" => sockets[s] = "CONNECTING"]_vars

(***************************************************************************)
(* C36  At most one connection effort exists at a time: at most one socket *)
(* is connecting or open, at most one reconnection timer is pending, and   *)
(* no reconnection timer is pending while a socket is connecting or open.  *)
(***************************************************************************)
Efforts == {s \in Slots : sockets[s] \in {"CONNECTING", "OPEN"}}

C36_OneConnectionEffort ==
    /\ Cardinality(Efforts) <= 1
    /\ Len(reconnectTimers) <= 1
    /\ Len(reconnectTimers) = 0 \/ Efforts = {}

\* A reconnection timer is pending after disconnect() closed the channel,
\* and no socket is connecting or open.
C36_Witness ==
    /\ ws = 0
    /\ Len(reconnectTimers) = 1
    /\ Efforts = {}
    /\ reconnectAttempts > 1

(***************************************************************************)
(* C37 as stated: retrying never stalls below the cap.  While this.ws      *)
(* refers to a socket (disconnect() sets it to null), that socket is       *)
(* closed and the attempt counter is below 5, a reconnection timer is      *)
(* pending.                                                                *)
(***************************************************************************)
C37_RetryingNeverStalls ==
    (/\ ws # 0
     /\ sockets[ws] \notin {"CONNECTING", "OPEN", "CLOSING"}
     /\ reconnectAttempts < maxReconnectAttempts)
    => Len(reconnectTimers) > 0

(***************************************************************************)
(* C38 as stated: with several avatars mounted and unmounted in any order, *)
(* the global trigger is registered whenever an avatar is mounted.         *)
(***************************************************************************)
C38_RegisteredWhileMounted == avatars # {} => hook

(***************************************************************************)
(* C39 as stated: when the global trigger has been called with 0, as the   *)
(* delayed reset of the service calls it, targetIntensity is 0 and         *)
(* isSpeaking is false.                                                    *)
(***************************************************************************)
C39_ZeroSilences ==
    [][hookCalls' = <<0>> =>
          /\ mouthAnim'.targetIntensity = 0
          /\ ~mouthAnim'.isSpeaking]_vars

(***************************************************************************)
(* C34 as stated: the reset that belongs to an earlier trigger never cuts  *)
(* a later trigger short.  A trigger of the service sets the target to its *)
(* intensity and arms its own timer of 2000 ms, so while the timer of some *)
(* trigger has time left, the target is not 0.                             *)
(***************************************************************************)
C34_ResetSparesLaterTrigger ==
    (\E i \in DOMAIN mouthTimers : mouthTimers[i] > 0) => mouthAnim.targetIntensity > 0

(***************************************************************************)
(* C35 as stated: at every moment after the live interface has mounted,    *)
(* the status it displays is 'connected' if and only if the channel is     *)
(* open.                                                                   *)
(***************************************************************************)
C35_StatusFollowsChannel ==
    InterfaceMounted => (connectionStatus = "connected" <=> ReadyState = "OPEN")

====
